---- MODULE Spec2Model ----
(***************************************************************************)
(* Habit tracker: the browser client (App component, derivation functions, *)
(* reminder scheduler, debounced save) as a state machine.                 *)
(*                                                                         *)
(* Time is counted in units of MsPerUnit milliseconds since 00:00 of day   *)
(* 0; every instant of the model is a whole number of units.  Date keys    *)
(* ("YYYY-MM-DD") are modelled by their day number; the client runs in     *)
(* UTC, so the local calendar day and the UTC day of toISOString agree.    *)
(* Strings that the code inspects character by character (habit labels     *)
(* and ids) are sequences of one-character strings.                        *)
(***************************************************************************)
EXTENDS Integers, Sequences, FiniteSets, TLC

VARIABLES
    habits,        \* useState habits: sequence of [id, label]
    history,       \* useState history: date key -> entry (a record that may hold .habits)
    tasksByDate,   \* useState tasksByDate: date key -> sequence of tasks
    selectedDate,  \* useState selectedDate
    isLoaded,      \* useState isLoaded
    mobile,        \* useState mobile ("" when logged out)
    now,           \* Date.now(), in units
    zone,          \* the time zone of the browser: its UTC offsets and clock change
    view,          \* the derived values of the last render (useMemo results)
    nextId,        \* number of ids makeId() has handed out
    saveTimers,    \* the pending save timeouts; saveTimer.current refers to one at most
    reminders,     \* the pending reminder timeouts, in registration order
    permission,    \* Notification.permission, or "unsupported"
    permRequests,  \* tasks whose Notification.requestPermission() is unanswered
    fires,         \* number of triggerReminder calls so far
    deliveries,    \* the notifications and alerts shown so far, in order
    deleted,       \* ids of tasks deleted (deleteTask) before their fire instant
    lastChangeAt,  \* instant of the last run of the save effect past its guard
    postsSince,    \* POST /api/data calls issued since lastChangeAt
    saveFailedAt,  \* instant of the last POST /api/data that failed (console.error)
    loads,         \* document fetches in flight: [mobile, isMounted]
    auths,         \* auth requests in flight: the trimmed mobile of each
    store,         \* server: the UserData collection, a set of documents
    requests,      \* server: handlers waiting for their UserData.create
    response       \* server: the last response sent

docVars == <<habits, history, tasksByDate>>
sessionVars == <<isLoaded, mobile, loads, auths>>
saveVars == <<saveTimers, lastChangeAt, postsSince, saveFailedAt>>
reminderVars == <<reminders, permission, permRequests, fires, deliveries, deleted>>
serverVars == <<store, requests, response>>
vars == <<habits, history, tasksByDate, selectedDate, isLoaded, mobile, now, zone, view,
          nextId, saveTimers, reminders, permission, permRequests, fires, deliveries,
          deleted, lastChangeAt, postsSince, saveFailedAt, loads, auths,
          store, requests, response>>

(***************************************************************************)
(* Time and dates                                                          *)
(***************************************************************************)
MsPerUnit == 100
UnitsPerMinute == 60000 \div MsPerUnit
UnitsPerDay == 1440 * UnitsPerMinute

\* the day the model starts on, and the instant (12:00 of that day)
StartDay == 40
Start == StartDay * UnitsPerDay + 720 * UnitsPerMinute

\* todayKey(): new Date().toISOString().slice(0, 10)
todayKey(t) == t \div UnitsPerDay

\* A time zone: local time is UTC + before up to the instant changeAt and
\* UTC + after from then on (one clock change; none when before = after).
UTC == [before |-> 0, after |-> 0, changeAt |-> 0]

Offset(z, t) == IF t < z.changeAt THEN z.before ELSE z.after

\* LocalTime(t)
LocalOf(z, t) == t + Offset(z, t)

\* UTC(local): the instant whose local time is `local`.  A local time the
\* clock change repeats is taken before the change; one it skips is read
\* with the offset before the change.
UtcOf(z, local) ==
    IF local - z.before < z.changeAt THEN local - z.before
    ELSE IF local - z.after >= z.changeAt THEN local - z.after
    ELSE local - z.before

\* d.setDate(d.getDate() - i): the same local time of day, i local days back
MinusDays(z, t, i) == UtcOf(z, LocalOf(z, t) - i * UnitsPerDay)

\* lastNDates(n): d.setDate(now.getDate() - i) for i = n-1 .. 0, each pushed
\* as d.toISOString().slice(0, 10)
lastNDates(n, t) == [i \in 1..n |-> todayKey(MinusDays(zone, t, n - i))]

(***************************************************************************)
(* Strings                                                                 *)
(***************************************************************************)
LowerLetters == {"a","b","c","d","e","f","g","h","i","j","k","l","m",
                 "n","o","p","q","r","s","t","u","v","w","x","y","z"}
Digits == {"0","1","2","3","4","5","6","7","8","9"}

DigitVal(c) ==
    CASE c = "0" -> 0 [] c = "1" -> 1 [] c = "2" -> 2 [] c = "3" -> 3
      [] c = "4" -> 4 [] c = "5" -> 5 [] c = "6" -> 6 [] c = "7" -> 7
      [] c = "8" -> 8 [] c = "9" -> 9

\* An own property key that is a canonical array index ("0", "7", "42"; not
\* "07"): JavaScript enumerates such keys first, in ascending numeric order.
IsArrayIndex(k) ==
    /\ Len(k) \in 1..9
    /\ \A i \in 1..Len(k) : k[i] \in Digits
    /\ (Len(k) > 1 => k[1] # "0")

RECURSIVE NumVal(_)
NumVal(k) == IF Len(k) = 0 THEN 0
             ELSE 10 * NumVal(SubSeq(k, 1, Len(k) - 1)) + DigitVal(k[Len(k)])

\* the keys of `keys` (a sequence, in insertion order), each once, first use first
RECURSIVE InsertionOrder(_)
InsertionOrder(keys) ==
    IF Len(keys) = 0 THEN <<>>
    ELSE LET front == InsertionOrder(SubSeq(keys, 1, Len(keys) - 1))
             k == keys[Len(keys)]
         IN IF \E i \in 1..Len(front) : front[i] = k THEN front ELSE Append(front, k)

RECURSIVE AscendingIndices(_)
AscendingIndices(S) ==
    IF S = {} THEN <<>>
    ELSE LET m == CHOOSE k \in S : \A o \in S : NumVal(k) <= NumVal(o)
         IN <<m>> \o AscendingIndices(S \ {m})

\* Object.keys / Object.entries order of an object whose keys were inserted in
\* the order `keys`: array indices ascending, then the other keys as inserted.
OwnKeyOrder(keys) ==
    LET ins == InsertionOrder(keys)
        idx == {ins[i] : i \in {j \in 1..Len(ins) : IsArrayIndex(ins[j])}}
    IN AscendingIndices(idx) \o SelectSeq(ins, LAMBDA k : ~IsArrayIndex(k))

UpperLetters == <<"A","B","C","D","E","F","G","H","I","J","K","L","M",
                  "N","O","P","Q","R","S","T","U","V","W","X","Y","Z">>
LowerOf == <<"a","b","c","d","e","f","g","h","i","j","k","l","m",
             "n","o","p","q","r","s","t","u","v","w","x","y","z">>

\* String.prototype.toLowerCase, one character
ToLower(c) ==
    IF \E i \in 1..26 : UpperLetters[i] = c
    THEN LowerOf[CHOOSE i \in 1..26 : UpperLetters[i] = c]
    ELSE c

IsSpace(c) == c = " "

\* String.prototype.trim
RECURSIVE Trim(_)
Trim(s) ==
    IF Len(s) = 0 THEN s
    ELSE IF IsSpace(s[1]) THEN Trim(Tail(s))
    ELSE IF IsSpace(s[Len(s)]) THEN Trim(SubSeq(s, 1, Len(s) - 1))
    ELSE s

\* .replace(/[^a-z0-9]+/g, '-'): every run of other characters becomes one '-'
IsSlugChar(c) == c \in LowerLetters \cup Digits

RECURSIVE ReplaceRuns(_)
ReplaceRuns(s) ==
    IF Len(s) = 0 THEN <<>>
    ELSE LET front == SubSeq(s, 1, Len(s) - 1)
             c == s[Len(s)]
         IN IF IsSlugChar(c) THEN Append(ReplaceRuns(front), c)
            ELSE IF Len(front) > 0 /\ ~IsSlugChar(front[Len(front)])
                 THEN ReplaceRuns(front)
                 ELSE Append(ReplaceRuns(front), "-")

\* .replace(/(^-|-$)/g, '')
StripDashes(s) ==
    LET a == IF Len(s) > 0 /\ s[1] = "-" THEN Tail(s) ELSE s
    IN IF Len(a) > 0 /\ a[Len(a)] = "-" THEN SubSeq(a, 1, Len(a) - 1) ELSE a

SlugMaxLen == 30

DigitChars == <<"0","1","2","3","4","5","6","7","8","9">>

RECURSIVE Decimal(_)
Decimal(n) == IF n < 10 THEN <<DigitChars[n + 1]>>
              ELSE Append(Decimal(n \div 10), DigitChars[(n % 10) + 1])

\* `${Date.now()}` at instant t: t * MsPerUnit milliseconds, in decimal
NowString(t) == Decimal(t) \o <<"0", "0">>

\* slugify(text) at instant t
slugify(text, t) ==
    LET lower == [i \in 1..Len(text) |-> ToLower(text[i])]
        slug == StripDashes(ReplaceRuns(lower))
        cut == SubSeq(slug, 1, IF Len(slug) < SlugMaxLen THEN Len(slug) ELSE SlugMaxLen)
    IN IF Len(cut) = 0 THEN <<"h","a","b","i","t","-">> \o NowString(t) ELSE cut

(***************************************************************************)
(* Derivation functions                                                    *)
(***************************************************************************)
EmptyObj == [k \in {} |-> FALSE]

\* habitsMap[h.id] is truthy
Truthy(habitsMap, id) == id \in DOMAIN habitsMap /\ habitsMap[id]

\* record.habits || {}
HabitsOf(record) == IF "habits" \in DOMAIN record THEN record.habits ELSE EmptyObj

\* Math.round(x / y) for x >= 0, y > 0 (halves round up)
Round(x, y) == (2 * x + y) \div (2 * y)

\* percentForDay counting the true keys of the map instead of the listed habits
percentForDayCountingKeys(habitsMap, habitsList) ==
    LET total == IF Len(habitsList) = 0 THEN 1 ELSE Len(habitsList)
        completed == Cardinality({k \in DOMAIN habitsMap : habitsMap[k]})
    IN Round(completed * 100, total)

\* percentForDay taking every habit of an empty list as done
percentForDayOfNothingIsAll(habitsMap, habitsList) ==
    IF Len(habitsList) = 0 THEN 100
    ELSE Round(Cardinality({i \in 1..Len(habitsList) :
                              Truthy(habitsMap, habitsList[i].id)}) * 100,
               Len(habitsList))

percentForDay(habitsMap, habitsList) ==
    LET total == IF Len(habitsList) = 0 THEN 1 ELSE Len(habitsList)
        completed == Cardinality({i \in 1..Len(habitsList) :
                                    Truthy(habitsMap, habitsList[i].id)})
    IN Round(completed * 100, total)

\* calculateStreak walking on past a day without an entry
RECURSIVE StreakSkippingGaps(_, _, _)
StreakSkippingGaps(hist, habitsList, cursor) ==
    LET key == todayKey(cursor)
    IN IF \A d \in DOMAIN hist : d > key THEN 0
       ELSE IF key \notin DOMAIN hist
       THEN StreakSkippingGaps(hist, habitsList, MinusDays(zone, cursor, 1))
       ELSE IF percentForDay(HabitsOf(hist[key]), habitsList) = 100
            THEN 1 + StreakSkippingGaps(hist, habitsList, MinusDays(zone, cursor, 1))
            ELSE 0

\* the while loop of calculateStreak: `cursor` is the instant of the Date
\* object, its key is cursor.toISOString().slice(0, 10), and
\* cursor.setDate(cursor.getDate() - 1) moves it one local day back
RECURSIVE StreakFrom(_, _, _)
StreakFrom(hist, habitsList, cursor) ==
    LET key == todayKey(cursor)
    IN IF key \notin DOMAIN hist THEN 0
       ELSE IF percentForDay(HabitsOf(hist[key]), habitsList) = 100
            THEN 1 + StreakFrom(hist, habitsList, MinusDays(zone, cursor, 1))
            ELSE 0

calculateStreak(hist, habitsList, t) == StreakFrom(hist, habitsList, t)

weeklyPercentages(hist, habitsList, t) ==
    LET days == lastNDates(7, t)
    IN [i \in 1..7 |->
          percentForDay(IF days[i] \in DOMAIN hist THEN HabitsOf(hist[days[i]])
                        ELSE EmptyObj, habitsList)]

RECURSIVE SumOf(_)
SumOf(values) == IF Len(values) = 0 THEN 0 ELSE Head(values) + SumOf(Tail(values))

\* the weekly average cutting the fraction off instead of rounding
weeklyAverageTruncating(percentages) ==
    IF Len(percentages) = 0 THEN 0
    ELSE SumOf(percentages) \div Len(percentages)

\* useMemo weeklyAverage
weeklyAverage(percentages) ==
    IF Len(percentages) = 0 THEN 0
    ELSE Round(SumOf(percentages), Len(percentages))

\* counts[h.id] after the days.forEach of monthlyInsight
InsightCount(hist, habitsList, t, id) ==
    LET days == lastNDates(30, t)
    IN Cardinality({p \in (1..30) \X (1..Len(habitsList)) :
          /\ habitsList[p[2]].id = id
          /\ days[p[1]] \in DOMAIN hist
          /\ Truthy(HabitsOf(hist[days[p[1]]]), id)})

\* entries.reduce((a, b) => (better(b, a) ? b : a)) over entries[1..n]
\* "best": (b[1] > a[1] ? b : a); "worst": (b[1] < a[1] ? b : a)
Better(which, b, a) == IF which = "best" THEN b[2] > a[2] ELSE b[2] < a[2]

RECURSIVE ReduceEntries(_, _, _)
ReduceEntries(entries, n, which) ==
    IF n = 1 THEN entries[1]
    ELSE LET a == ReduceEntries(entries, n - 1, which)
             b == entries[n]
         IN IF Better(which, b, a) THEN b ELSE a

\* habits.find((h) => h.id === id) || null
Null == [null |-> TRUE]
FindHabit(habitsList, id) ==
    IF \E i \in 1..Len(habitsList) : habitsList[i].id = id
    THEN habitsList[CHOOSE i \in 1..Len(habitsList) :
                      /\ habitsList[i].id = id
                      /\ \A j \in 1..(i - 1) : habitsList[j].id # id]
    ELSE Null

\* Object.entries(counts): counts is built by inserting the ids in list order
InsightEntries(hist, habitsList, t) ==
    LET keys == OwnKeyOrder([i \in 1..Len(habitsList) |-> habitsList[i].id])
    IN [i \in 1..Len(keys) |-> <<keys[i], InsightCount(hist, habitsList, t, keys[i])>>]

monthlyInsight(hist, habitsList, t) ==
    LET entries == InsightEntries(hist, habitsList, t)
    IN IF Len(entries) = 0 THEN [bestHabit |-> Null, worstHabit |-> Null]
       ELSE LET best == ReduceEntries(entries, Len(entries), "best")
                worst == ReduceEntries(entries, Len(entries), "worst")
            IN [bestHabit |-> FindHabit(habitsList, best[1]),
                worstHabit |-> FindHabit(habitsList, worst[1])]

(***************************************************************************)
(* The document and its defaults                                           *)
(***************************************************************************)
DEFAULT_HABITS ==
    << [id |-> <<"w","a","k","e">>,                 label |-> <<"Wake up early">>],
       [id |-> <<"e","x","e","r","c","i","s","e">>, label |-> <<"Exercise">>],
       [id |-> <<"s","t","u","d","y">>,             label |-> <<"Study / Learn new skill">>],
       [id |-> <<"p","r","o","b","l","e","m","s">>, label |-> <<"2 problems a day">>],
       [id |-> <<"w","a","t","e","r">>,             label |-> <<"Drink enough water">>],
       [id |-> <<"m","e","d","i","t","a","t","e">>, label |-> <<"Meditation">>],
       [id |-> <<"r","e","a","d">>,                 label |-> <<"Reading">>] >>

\* { [todayKey()]: { habits: {} } }
DefaultHistory(t) == [d \in {todayKey(t)} |-> [habits |-> EmptyObj]]

\* { [todayKey()]: [] }
DefaultTasks(t) == [d \in {todayKey(t)} |-> <<>>]

\* { ...obj, [key]: val }
Put(obj, key, val) == [k \in DOMAIN obj \cup {key} |-> IF k = key THEN val ELSE obj[k]]

\* delete obj[key]
Without(obj, key) == [k \in DOMAIN obj \ {key} |-> obj[k]]

\* prev[date] || []
ListAt(tasks, date) == IF date \in DOMAIN tasks THEN tasks[date] ELSE <<>>

HabitIds(habitsList) == {habitsList[i].id : i \in 1..Len(habitsList)}

(***************************************************************************)
(* Timers                                                                  *)
(***************************************************************************)
MaxPending == 3

QuietMs == 400
QuietUnits == QuietMs \div MsPerUnit

\* setTimeout keeps its delay as a signed 32-bit number of milliseconds
TimeoutMaxMs == 2147483647
TimeoutMaxUnits == TimeoutMaxMs \div MsPerUnit

\* The delay setTimeout(fn, delay) waits, for 0 < delay < 2^32 ms: a delay
\* above the 32-bit maximum wraps to a negative number and runs at once.
EffectiveDelay(delay) == IF delay > TimeoutMaxUnits THEN 0 ELSE delay

\* minutes after midnight of an <input type="time"> value "HH:MM"
MinutesOf(hhmm) ==
    CASE hhmm = "09:00" -> 540
      [] hhmm = "18:00" -> 1080

\* new Date(`${date}T${task.reminderTime}`).getTime(): the date and time are
\* read as local time
DueInstant(date, hhmm) ==
    UtcOf(zone, date * UnitsPerDay + MinutesOf(hhmm) * UnitsPerMinute)

\* the tasks of a snapshot in Object.entries order, as <<date, position>> pairs
RECURSIVE TaskRefs(_, _)
TaskRefs(tasks, dates) ==
    IF dates = {} THEN <<>>
    ELSE LET d == CHOOSE x \in dates : \A y \in dates : x <= y
         IN [i \in 1..Len(tasks[d]) |-> <<d, i>>] \o TaskRefs(tasks, dates \ {d})

\* ref.current[task.id] = id: a timeout registered earlier under the same key
\* is no longer referred to
Untrack(timers, id) ==
    [i \in 1..Len(timers) |->
        IF timers[i].task.id = id THEN [timers[i] EXCEPT !.tracked = FALSE] ELSE timers[i]]

\* the body of list.forEach((task) => ...) in scheduleReminders
RegisterTask(timers, date, pos, task, t) ==
    IF task.reminderTime = "" THEN timers
    ELSE LET delay == DueInstant(date, task.reminderTime) - t
         IN IF delay <= 0 THEN timers
            ELSE Append(Untrack(timers, task.id),
                        [task |-> task, date |-> date, pos |-> pos,
                         at |-> t + EffectiveDelay(delay),
                         tracked |-> TRUE, latest |-> TRUE])

RECURSIVE RegisterAll(_, _, _, _, _)
RegisterAll(timers, tasks, refs, n, t) ==
    IF n = 0 THEN timers
    ELSE RegisterTask(RegisterAll(timers, tasks, refs, n - 1, t),
                      refs[n][1], refs[n][2], tasks[refs[n][1]][refs[n][2]], t)

\* Object.values(ref.current).forEach(clearTimeout); ref.current = {}
\* (the timeouts that survive are no longer of the latest pass)
CancelTracked(timers) ==
    LET kept == SelectSeq(timers, LAMBDA x : ~x.tracked)
    IN [i \in 1..Len(kept) |-> [kept[i] EXCEPT !.latest = FALSE]]

\* scheduleReminders(tasksByDate, ref) at instant t: the pending timeouts after it
scheduleReminders(tasks, timers, t) ==
    LET refs == TaskRefs(tasks, DOMAIN tasks)
    IN RegisterAll(CancelTracked(timers), tasks, refs, Len(refs), t)

(***************************************************************************)
(* Effects                                                                 *)
(***************************************************************************)
\* the save effect without its clearTimeout: the earlier timeout stays pending
KeepSaveTimer(timers) == timers

\* if (saveTimer.current) clearTimeout(saveTimer.current)
ClearSaveTimer(timers) == SelectSeq(timers, LAMBDA x : ~x.current)

\* The save effect (deps habits, history, tasksByDate, isLoaded, mobile), run
\* with the values of the render that follows the state change.
SaveEffect(h, hist, tasks, loaded, mob) ==
    IF ~loaded \/ mob = <<>>
    THEN UNCHANGED saveVars
    ELSE /\ saveTimers' = Append(ClearSaveTimer(saveTimers),
                [payload |-> [habits |-> h, history |-> hist, tasksByDate |-> tasks],
                 mobile |-> mob,
                 due |-> now + QuietUnits,
                 current |-> TRUE])
         /\ lastChangeAt' = now
         /\ postsSince' = 0
         /\ UNCHANGED saveFailedAt

\* The reminder effect (dep tasksByDate).  The model follows the client while
\* no more than MaxPending reminder timeouts are pending.
ReminderEffect(tasks) ==
    /\ reminders' = scheduleReminders(tasks, reminders, now)
    /\ Len(reminders') <= MaxPending

(***************************************************************************)
(* Inputs                                                                  *)
(***************************************************************************)
MaxTasks == 1
MaxFine == 5
MaxCoarse == 1
MaxFires == 2
MaxInFlight == 2
MaxCalcHabits == 3
MaxStreakDays == 3
MaxStoredTasks == 2

\* what the user types as a new habit: labels that slugify to the same id
\* ("a", "A ", "!a"), to an id with a replaced run ("a!B"), to the
\* `habit-${Date.now()}` fallback ("!"), and a blank one
HabitInputs == {<<"a">>, <<"A", " ">>, <<"!", "a">>, <<"a", "!", "B">>, <<"!">>, <<" ">>}

\* what window.prompt returns for a rename (<<>>: cancelled or left empty)
RenameInputs == {<<>>, <<" ", "B">>}

\* the reminder times the user picks ("": none)
ReminderTimes == {"", "09:00", "18:00"}

\* the dates the date picker is set to: today, and a day FarDays ahead
FarDays == 30
PickedDates(t) == {todayKey(t), StartDay + FarDays}

\* the mobile numbers typed on the auth page
MobileInputs == {<<" ">>, <<"1">>, <<" ", "2">>}

(***************************************************************************)
(* Habit handlers                                                          *)
(***************************************************************************)
\* setHistory updater of handleHabitToggle
ToggledHistory(hist, habitId, checked, t) ==
    LET current == IF todayKey(t) \in DOMAIN hist THEN hist[todayKey(t)]
                   ELSE [habits |-> EmptyObj]
    IN Put(hist, todayKey(t), Put(current, "habits", Put(HabitsOf(current), habitId, checked)))

handleHabitToggle(habitId, checked) ==
    /\ mobile # <<>>
    /\ habitId \in HabitIds(habits)
    /\ history' = ToggledHistory(history, habitId, checked, now)
    /\ SaveEffect(habits, history', tasksByDate, isLoaded, mobile)
    /\ UNCHANGED <<habits, tasksByDate, selectedDate, sessionVars, now, view, serverVars, zone, nextId,
                   reminderVars>>

\* handleAddHabit setting the new id in today's entry only
BackfilledTodayOnly(hist, id) ==
    [d \in DOMAIN hist |->
        IF d = todayKey(now) THEN Put(hist[d], "habits", Put(HabitsOf(hist[d]), id, FALSE))
        ELSE hist[d]]

\* setHistory updater of handleAddHabit: entry.habits[id] = false in every entry
BackfilledHistory(hist, id) ==
    [d \in DOMAIN hist |-> Put(hist[d], "habits", Put(HabitsOf(hist[d]), id, FALSE))]

\* the collision check comparing labels instead of ids
LabelTaken(habitsList, id) == \E i \in 1..Len(habitsList) : habitsList[i].label = id

\* habits.some((h) => h.id === id)
IdTaken(habitsList, id) == id \in HabitIds(habitsList)

handleAddHabit(text) ==
    LET trimmed == Trim(text)
        id == slugify(trimmed, now)
    IN /\ mobile # <<>>
       /\ trimmed # <<>>
       /\ IF IdTaken(habits, id)
          THEN UNCHANGED <<habits, history, saveVars>>
          ELSE /\ habits' = Append(habits, [id |-> id, label |-> trimmed])
               /\ history' = BackfilledHistory(history, id)
               /\ SaveEffect(habits', history', tasksByDate, isLoaded, mobile)
       /\ UNCHANGED <<tasksByDate, selectedDate, sessionVars, now, view, serverVars, zone, nextId,
                      reminderVars>>

\* setHistory updater of handleDeleteHabit
PrunedHistory(hist, id) ==
    [d \in DOMAIN hist |->
        IF "habits" \in DOMAIN hist[d]
        THEN Put(hist[d], "habits", Without(hist[d].habits, id))
        ELSE hist[d]]

handleDeleteHabit(id) ==
    /\ mobile # <<>>
    /\ id \in HabitIds(habits)
    /\ habits' = SelectSeq(habits, LAMBDA h : h.id # id)
    /\ history' = PrunedHistory(history, id)
    /\ SaveEffect(habits', history', tasksByDate, isLoaded, mobile)
    /\ UNCHANGED <<tasksByDate, selectedDate, sessionVars, now, view, serverVars, zone, nextId,
                   reminderVars>>

\* `updated` is what window.prompt returned: <<>> stands for null and for ''
handleRenameHabit(id, updated) ==
    /\ mobile # <<>>
    /\ id \in HabitIds(habits)
    /\ IF updated = <<>>
       THEN UNCHANGED <<habits, saveVars>>
       ELSE /\ habits' = [i \in 1..Len(habits) |->
                            IF habits[i].id = id
                            THEN [habits[i] EXCEPT !.label = Trim(updated)]
                            ELSE habits[i]]
            /\ SaveEffect(habits', history, tasksByDate, isLoaded, mobile)
    /\ UNCHANGED <<history, tasksByDate, selectedDate, sessionVars, now, view, serverVars, zone, nextId,
                   reminderVars>>

(***************************************************************************)
(* Task handlers                                                           *)
(***************************************************************************)
\* makeId(): an id no other task has
makeId(n) == n + 1

TaskIds(list) == {list[i].id : i \in 1..Len(list)}

\* the side effects of a change of tasksByDate
TasksChanged(tasks) ==
    /\ tasksByDate' = tasks
    /\ SaveEffect(habits, history, tasks, isLoaded, mobile)
    /\ ReminderEffect(tasks)

handleAddTask(text, reminder) ==
    LET trimmed == Trim(text)
        task == [id |-> makeId(nextId), text |-> trimmed, done |-> FALSE,
                 reminderTime |-> reminder]
    IN /\ mobile # <<>>
       /\ trimmed # <<>>
       /\ nextId < MaxTasks
       /\ nextId' = nextId + 1
       /\ TasksChanged(Put(tasksByDate, selectedDate,
                           <<task>> \o ListAt(tasksByDate, selectedDate)))
       /\ UNCHANGED <<habits, history, selectedDate, sessionVars, now, view, serverVars, zone,
                      permission, permRequests, fires, deliveries, deleted>>

\* toggleTask flipping every task of the selected date
toggleEveryTask(id) ==
    LET current == ListAt(tasksByDate, selectedDate)
    IN /\ mobile # <<>>
       /\ id \in TaskIds(current)
       /\ TasksChanged(Put(tasksByDate, selectedDate,
              [i \in 1..Len(current) |-> [current[i] EXCEPT !.done = ~current[i].done]]))
       /\ UNCHANGED <<habits, history, selectedDate, sessionVars, now, view, serverVars, zone, nextId,
                      permission, permRequests, fires, deliveries, deleted>>

toggleTask(id) ==
    LET current == ListAt(tasksByDate, selectedDate)
    IN /\ mobile # <<>>
       /\ id \in TaskIds(current)
       /\ TasksChanged(Put(tasksByDate, selectedDate,
              [i \in 1..Len(current) |->
                  IF current[i].id = id THEN [current[i] EXCEPT !.done = ~current[i].done]
                  ELSE current[i]]))
       /\ UNCHANGED <<habits, history, selectedDate, sessionVars, now, view, serverVars, zone, nextId,
                      permission, permRequests, fires, deliveries, deleted>>

\* `updated` is what window.prompt returned: <<>> stands for null and for ''
editTask(id, updated) ==
    LET list == ListAt(tasksByDate, selectedDate)
        text == Trim(updated)
    IN /\ mobile # <<>>
       /\ id \in TaskIds(list)
       /\ text # <<>>
       /\ TasksChanged(Put(tasksByDate, selectedDate,
              [i \in 1..Len(list) |->
                  IF list[i].id = id THEN [list[i] EXCEPT !.text = text] ELSE list[i]]))
       /\ UNCHANGED <<habits, history, selectedDate, sessionVars, now, view, serverVars, zone, nextId,
                      permission, permRequests, fires, deliveries, deleted>>

\* the task (date, id) has a reminder that is still to come at instant t
HasFutureReminder(tasks, date, id, t) ==
    \E i \in 1..Len(ListAt(tasks, date)) :
        LET task == tasks[date][i]
        IN /\ task.id = id
           /\ task.reminderTime # ""
           /\ DueInstant(date, task.reminderTime) > t

deleteTask(id) ==
    LET list == ListAt(tasksByDate, selectedDate)
    IN /\ mobile # <<>>
       /\ id \in TaskIds(list)
       /\ TasksChanged(Put(tasksByDate, selectedDate, SelectSeq(list, LAMBDA x : x.id # id)))
       /\ deleted' = IF HasFutureReminder(tasksByDate, selectedDate, id, now)
                     THEN deleted \cup {<<selectedDate, id>>}
                     ELSE deleted
       /\ UNCHANGED <<habits, history, selectedDate, sessionVars, now, view, serverVars, zone, nextId,
                      permission, permRequests, fires, deliveries>>

handleDateChange(value) ==
    /\ mobile # <<>>
    /\ selectedDate' = value
    /\ TasksChanged(Put(tasksByDate, value, ListAt(tasksByDate, value)))
    /\ UNCHANGED <<habits, history, sessionVars, now, view, serverVars, zone, nextId,
                   permission, permRequests, fires, deliveries, deleted>>

(***************************************************************************)
(* Time, timeouts, notification permission                                 *)
(***************************************************************************)
RemoveAt(seq, i) == SubSeq(seq, 1, i - 1) \o SubSeq(seq, i + 1, Len(seq))

CoarseStep == 360 * UnitsPerMinute

\* the clock moves on by one unit (less than the quiet interval)
TickFine ==
    /\ (now - Start) % CoarseStep < MaxFine
    /\ now' = now + 1
    /\ UNCHANGED <<docVars, selectedDate, sessionVars, view, serverVars, zone, nextId, saveVars, reminderVars>>

\* the clock moves on by six hours
TickCoarse ==
    /\ (now - Start) \div CoarseStep < MaxCoarse
    /\ now' = now + CoarseStep
    /\ UNCHANGED <<docVars, selectedDate, sessionVars, view, serverVars, zone, nextId, saveVars, reminderVars>>

\* no POST /api/data has failed yet
NoFailure == Start - 1

\* The save timeout whose callback retries a failed POST after the quiet interval
FireSaveRetrying(i, ok) ==
    /\ i \in 1..Len(saveTimers)
    /\ saveTimers[i].due <= now
    /\ saveTimers' = IF ok THEN RemoveAt(saveTimers, i)
                     ELSE Append(RemoveAt(saveTimers, i),
                                 [saveTimers[i] EXCEPT !.due = now + QuietUnits])
    /\ postsSince' = postsSince + 1
    /\ saveFailedAt' = IF ok THEN saveFailedAt ELSE now
    /\ UNCHANGED <<docVars, selectedDate, sessionVars, now, view, serverVars, zone, nextId, lastChangeAt,
                   reminderVars>>

\* The callback of the save timeout: fetch(`${API_URL}/data`, { method: 'POST', ... })
\* with the payload and the mobile of the render that set the timeout.  The
\* fetch resolves (ok) or rejects; .catch logs the rejection and touches no
\* state, so the outcome is taken together with the call.
FireSave(i, ok) ==
    /\ i \in 1..Len(saveTimers)
    /\ saveTimers[i].due <= now
    /\ saveTimers' = RemoveAt(saveTimers, i)
    /\ postsSince' = postsSince + 1
    /\ saveFailedAt' = IF ok THEN saveFailedAt ELSE now
    /\ UNCHANGED <<docVars, selectedDate, sessionVars, now, view, serverVars, zone, nextId, lastChangeAt,
                   reminderVars>>

Notify(date, task) == [date |-> date, id |-> task.id, how |-> "notification"]
Alert(date, task) == [date |-> date, id |-> task.id, how |-> "alert"]

\* triggerReminder without the `return` after new Notification(...): the
\* notification is followed by the alert of the last line
triggerReminderFallingThrough(date, task) ==
    IF permission # "unsupported" /\ permission = "granted"
    THEN /\ deliveries' = deliveries \o <<Notify(date, task), Alert(date, task)>>
         /\ UNCHANGED permRequests
    ELSE IF permission # "unsupported" /\ permission # "denied"
    THEN /\ permRequests' = Append(permRequests, [date |-> date, task |-> task])
         /\ UNCHANGED deliveries
    ELSE /\ deliveries' = Append(deliveries, Alert(date, task))
         /\ UNCHANGED permRequests

\* triggerReminder(task), for the task of a timeout registered for `date`
triggerReminder(date, task) ==
    IF permission # "unsupported" /\ permission = "granted"
    THEN /\ deliveries' = Append(deliveries, Notify(date, task))
         /\ UNCHANGED permRequests
    ELSE IF permission # "unsupported" /\ permission # "denied"
    THEN /\ permRequests' = Append(permRequests, [date |-> date, task |-> task])
         /\ UNCHANGED deliveries
    ELSE /\ deliveries' = Append(deliveries, Alert(date, task))
         /\ UNCHANGED permRequests

\* a reminder timeout comes due and runs
FireReminder(i) ==
    /\ i \in 1..Len(reminders)
    /\ reminders[i].at <= now
    /\ fires < MaxFires
    /\ reminders' = RemoveAt(reminders, i)
    /\ fires' = fires + 1
    /\ triggerReminder(reminders[i].date, reminders[i].task)
    /\ UNCHANGED <<docVars, selectedDate, sessionVars, now, view, serverVars, zone, nextId, saveVars,
                   permission, deleted>>

\* .then((perm) => ...) of Notification.requestPermission()
PermissionThen(req, perm) ==
    IF perm = "granted"
    THEN deliveries' = Append(deliveries, Notify(req.date, req.task))
    ELSE deliveries' = Append(deliveries, Alert(req.date, req.task))

\* The user answers (or dismisses, perm = "default") the permission prompt; a
\* request still waiting once the permission is decided resolves with it.
PermissionResponse(i, perm) ==
    /\ i \in 1..Len(permRequests)
    /\ permission = "default" \/ perm = permission
    /\ permission' = perm
    /\ permRequests' = RemoveAt(permRequests, i)
    /\ PermissionThen(permRequests[i], perm)
    /\ UNCHANGED <<docVars, selectedDate, sessionVars, now, view, serverVars, zone, nextId, saveVars,
                   reminders, fires, deleted>>

(***************************************************************************)
(* Session: auth, document load, logout                                    *)
(***************************************************************************)
\* the load effect without its cleanup: isMounted stays true
StillMounted(ls) == ls

\* return () => { isMounted = false; } of the load effect runs
Unmounted(ls) == {[l EXCEPT !.mounted = FALSE] : l \in ls}

\* handleAuth up to its fetch; the auth page is shown only while !mobile
handleAuth(mode, input) ==
    LET trimmed == Trim(input)
    IN /\ mobile = <<>>
       /\ trimmed # <<>>
       /\ Len(auths) < MaxInFlight
       /\ mode \in {"login", "signup"}
       /\ auths' = Append(auths, [mobile |-> trimmed])
       /\ UNCHANGED <<docVars, selectedDate, isLoaded, mobile, loads, now, view, serverVars, zone, nextId,
                      saveVars, reminderVars>>

\* handleAuth after its fetch: res.ok, or the catch branch.  A new mobile
\* re-runs the load effect: the previous load is unmounted, a fetch starts.
AuthResponse(i, ok) ==
    /\ i \in 1..Len(auths)
    /\ auths' = RemoveAt(auths, i)
    /\ IF ok
       THEN /\ mobile' = auths[i].mobile
            /\ isLoaded' = FALSE
            /\ loads' = IF auths[i].mobile # mobile
                        THEN Unmounted(loads) \cup {[mobile |-> auths[i].mobile, mounted |-> TRUE]}
                        ELSE loads
            /\ SaveEffect(habits, history, tasksByDate, isLoaded', mobile')
       ELSE UNCHANGED <<mobile, isLoaded, loads, saveVars>>
    /\ UNCHANGED <<docVars, selectedDate, now, view, serverVars, zone, nextId, reminderVars>>

\* what the load effect makes of a fetched document (lines 88-90)
LoadedHabits(json) == IF Len(json.habits) > 0 THEN json.habits ELSE DEFAULT_HABITS
LoadedHistory(json, t) == IF DOMAIN json.history # {} THEN json.history ELSE DefaultHistory(t)
LoadedTasks(json, t) == json.tasksByDate

\* The load effect whose catch branch keeps the document in memory
LoadResponseKeepingDocument(l, ok, json) ==
    /\ l \in loads
    /\ loads' = loads \ {l}
    /\ IF l.mounted
       THEN /\ habits' = IF ok THEN LoadedHabits(json) ELSE habits
            /\ history' = IF ok THEN LoadedHistory(json, now) ELSE history
            /\ isLoaded' = TRUE
            /\ tasksByDate' = IF ok THEN LoadedTasks(json, now) ELSE tasksByDate
            /\ SaveEffect(habits', history', tasksByDate', isLoaded', mobile)
            /\ ReminderEffect(tasksByDate')
            /\ deleted' = {p \in deleted : ~(p[1] \in DOMAIN tasksByDate'
                                               /\ p[2] \in TaskIds(tasksByDate'[p[1]]))}
       ELSE UNCHANGED <<docVars, isLoaded, saveVars, reminders, deleted>>
    /\ UNCHANGED <<selectedDate, mobile, auths, now, view, serverVars, zone, nextId,
                   permission, permRequests, fires, deliveries>>

\* The fetch of the load effect settles: with a document (ok), or not.
LoadResponse(l, ok, json) ==
    /\ l \in loads
    /\ loads' = loads \ {l}
    /\ IF l.mounted
       THEN /\ habits' = IF ok THEN LoadedHabits(json) ELSE DEFAULT_HABITS
            /\ history' = IF ok THEN LoadedHistory(json, now) ELSE DefaultHistory(now)
            /\ isLoaded' = TRUE
            /\ tasksByDate' = IF ok THEN LoadedTasks(json, now) ELSE DefaultTasks(now)
            /\ SaveEffect(habits', history', tasksByDate', isLoaded', mobile)
            /\ ReminderEffect(tasksByDate')
            /\ deleted' = {p \in deleted : ~(p[1] \in DOMAIN tasksByDate'
                                               /\ p[2] \in TaskIds(tasksByDate'[p[1]]))}
       ELSE UNCHANGED <<docVars, isLoaded, saveVars, reminders, deleted>>
    /\ UNCHANGED <<selectedDate, mobile, auths, now, view, serverVars, zone, nextId,
                   permission, permRequests, fires, deliveries>>

handleLogout ==
    /\ mobile # <<>>
    /\ mobile' = <<>>
    /\ habits' = DEFAULT_HABITS
    /\ history' = DefaultHistory(now)
    /\ isLoaded' = TRUE
    /\ loads' = Unmounted(loads)
    /\ tasksByDate' = DefaultTasks(now)
    /\ SaveEffect(habits', history', tasksByDate', isLoaded', mobile')
    /\ ReminderEffect(tasksByDate')
    /\ UNCHANGED <<selectedDate, auths, now, view, serverVars, zone, nextId,
                   permission, permRequests, fires, deliveries, deleted>>

(***************************************************************************)
(* Initial states                                                          *)
(***************************************************************************)
NoView == [op |-> "none"]

\* The App component after its first render and mount effects, with `mob` in
\* localStorage: the fetch of the load effect is in flight unless !mobile.
Mounted(mob) ==
    /\ habits = DEFAULT_HABITS
    /\ history = DefaultHistory(Start)
    /\ tasksByDate = DefaultTasks(Start)
    /\ selectedDate = todayKey(Start)
    /\ isLoaded = (mob = <<>>)
    /\ mobile = mob
    /\ now = Start
    /\ zone = UTC
    /\ view = NoView
    /\ nextId = 0
    /\ saveTimers = <<>>
    /\ reminders = <<>>
    /\ permRequests = <<>>
    /\ fires = 0
    /\ deliveries = <<>>
    /\ deleted = {}
    /\ lastChangeAt = Start
    /\ postsSince = 0
    /\ saveFailedAt = NoFailure
    /\ loads = IF mob = <<>> THEN {} ELSE {[mobile |-> mob, mounted |-> TRUE]}
    /\ auths = <<>>

\* The App component logged in as `mob` at instant t in the zone z, its document (h,
\* hist, tasks) just installed: the save effect and the reminder effect have
\* run on it.
LoadedAt(t, z, mob, h, hist, tasks) ==
    /\ habits = h
    /\ history = hist
    /\ tasksByDate = tasks
    /\ selectedDate = todayKey(t)
    /\ isLoaded = TRUE
    /\ mobile = mob
    /\ now = t
    /\ zone = z
    /\ view = NoView
    /\ nextId = 0
    /\ saveTimers = << [payload |-> [habits |-> habits, history |-> history,
                                      tasksByDate |-> tasksByDate],
                         mobile |-> mob, due |-> t + QuietUnits, current |-> TRUE] >>
    /\ reminders = scheduleReminders(tasksByDate, <<>>, t)
    /\ permRequests = <<>>
    /\ fires = 0
    /\ deliveries = <<>>
    /\ deleted = {}
    /\ lastChangeAt = t
    /\ postsSince = 0
    /\ saveFailedAt = NoFailure
    /\ loads = {}
    /\ auths = <<>>

\* the same at instant Start, the browser in UTC
Loaded(mob, h, hist, tasks) == LoadedAt(Start, UTC, mob, h, hist, tasks)

(***************************************************************************)
(* The derivation functions on bounded inputs                              *)
(***************************************************************************)
CalcIds == {<<"a">>, <<"7">>, <<"b">>}

UnitsPerHour == 60 * UnitsPerMinute

\* Zones whose clocks went forward an hour (UTC-5 to UTC-4, at 02:00 local)
\* or back an hour (UTC+1 to UTC, at 02:00 local) `ago` days before StartDay
ClockForward(ago) ==
    [before |-> 0 - 5 * UnitsPerHour, after |-> 0 - 4 * UnitsPerHour,
     changeAt |-> (StartDay - ago) * UnitsPerDay + 7 * UnitsPerHour]
ClockBack(ago) ==
    [before |-> UnitsPerHour, after |-> 0,
     changeAt |-> (StartDay - ago) * UnitsPerDay + UnitsPerHour]

\* the zones the browser runs in
Zones == {UTC, ClockForward(2), ClockBack(2), ClockForward(5), ClockBack(5)}

\* the instants of StartDay a function is called at: 00:30, 12:00, 18:00 and
\* 23:30 UTC
Instants ==
    {StartDay * UnitsPerDay + 30 * UnitsPerMinute, Start, Start + 6 * UnitsPerHour,
     StartDay * UnitsPerDay + 23 * UnitsPerHour + 30 * UnitsPerMinute}

\* a habit with the id as its label
HabitOf(id) == [id |-> id, label |-> id]

\* habit lists over CalcIds, ids repeated or not
CalcLists == UNION {[1..n -> {HabitOf(id) : id \in CalcIds}] : n \in 0..MaxCalcHabits}

UniqueIds(habitsList) ==
    \A i, j \in 1..Len(habitsList) : habitsList[i].id = habitsList[j].id => i = j

\* day maps: some ids missing, some false, some true
CalcMaps == UNION {[S -> BOOLEAN] : S \in SUBSET CalcIds}

clientVarsAtRest == <<docVars, selectedDate, sessionVars, now, zone, nextId, saveVars, reminderVars>>
\* the server while no request is being handled
ServerIdle == store = {} /\ requests = <<>> /\ response = [route |-> "none"]

\* useMemo weeklyPercentages
RenderWeekly ==
    /\ view' = [op |-> "weekly", val |-> weeklyPercentages(history, habits, now)]
    /\ UNCHANGED <<clientVarsAtRest, serverVars>>

\* useMemo weeklyPercentages followed by useMemo weeklyAverage
RenderWeeklyAverage ==
    /\ view' = [op |-> "average",
                series |-> weeklyPercentages(history, habits, now),
                val |-> weeklyAverage(weeklyPercentages(history, habits, now))]
    /\ UNCHANGED <<clientVarsAtRest, serverVars>>

\* useMemo streak
RenderStreak ==
    /\ view' = [op |-> "streak", val |-> calculateStreak(history, habits, now)]
    /\ UNCHANGED <<clientVarsAtRest, serverVars>>

\* useMemo { bestHabit, worstHabit }
RenderInsight ==
    /\ view' = [op |-> "insight", val |-> monthlyInsight(history, habits, now)]
    /\ UNCHANGED <<clientVarsAtRest, serverVars>>

\* percentForDay: any list against any map for today
InitPercent ==
    /\ ServerIdle
    /\ permission = "granted"
    /\ \E h \in CalcLists, m \in CalcMaps :
          Loaded(<<"1">>, h, [d \in {StartDay} |-> [habits |-> m]], DefaultTasks(Start))

SpecPercent == InitPercent /\ [][RenderWeekly]_vars

\* calculateStreak: the last MaxStreakDays days, each without an entry, with an
\* entry that has no habits map, or with any map over two habits
StreakIds == {<<"a">>, <<"b">>}
StreakDays == (StartDay - MaxStreakDays + 1)..StartDay
StreakEntries == {EmptyObj} \cup {[habits |-> m] : m \in [StreakIds -> BOOLEAN]}
StreakHistories == UNION {[S -> StreakEntries] : S \in SUBSET StreakDays}
StreakLists == {<<>>, <<HabitOf(<<"a">>)>>, <<HabitOf(<<"a">>), HabitOf(<<"b">>)>>}

InitStreak ==
    /\ ServerIdle
    /\ permission = "granted"
    /\ \E t \in Instants, z \in Zones, h \in StreakLists, hist \in StreakHistories :
          LoadedAt(t, z, <<"1">>, h, hist, DefaultTasks(t))

SpecStreak == InitStreak /\ [][RenderStreak]_vars

\* monthlyInsight: lists of distinct ids; entries on today, on the first day
\* of the 30-day window and on the day before it
InsightDays == {StartDay, StartDay - 29, StartDay - 30}
InsightLists == {h \in CalcLists : UniqueIds(h)}
InsightHistories ==
    UNION {[S -> {[habits |-> m] : m \in [CalcIds -> BOOLEAN]}] : S \in SUBSET InsightDays}

InitInsight ==
    /\ ServerIdle
    /\ permission = "granted"
    /\ \E h \in InsightLists, hist \in InsightHistories :
          Loaded(<<"1">>, h, hist, DefaultTasks(Start))

SpecInsight == InitInsight /\ [][RenderInsight]_vars

(***************************************************************************)
(* Properties of the derivation functions                                  *)
(***************************************************************************)
RECURSIVE CountDone(_, _)
CountDone(habitsMap, habitsList) ==
    IF Len(habitsList) = 0 THEN 0
    ELSE (IF Head(habitsList).id \in DOMAIN habitsMap /\ habitsMap[Head(habitsList).id] = TRUE
          THEN 1 ELSE 0) + CountDone(habitsMap, Tail(habitsList))

TodayMap == HabitsOf(history[todayKey(now)])

PerfectDay(d) ==
    d \in DOMAIN history /\ percentForDay(HabitsOf(history[d]), habits) = 100

\* C5: when exactly the k most recent days up to today are at 100% (the day
\* before them has no entry or is below 100%), calculateStreak returns k; so
\* it returns 0 when today has no entry or is below 100%.
C5_StreakIsRunLength ==
    \A k \in 0..(MaxStreakDays + 1) :
        ( /\ \A j \in 0..(k - 1) : PerfectDay(todayKey(now) - j)
          /\ ~PerfectDay(todayKey(now) - k) )
        => calculateStreak(history, habits, now) = k

\* what does hold: the same in a zone without a clock change
StreakIsRunLengthWithoutClockChange ==
    zone.before = zone.after =>
        \A k \in 0..(MaxStreakDays + 1) :
            ( /\ \A j \in 0..(k - 1) : PerfectDay(todayKey(now) - j)
              /\ ~PerfectDay(todayKey(now) - k) )
            => calculateStreak(history, habits, now) = k

\* today and yesterday perfect, the day before present but not perfect
C5_Witness ==
    /\ view.op = "streak"
    /\ view.val = 2
    /\ (todayKey(now) - 2) \in DOMAIN history

\* number of days of the 30-day window whose entry has the habit true
WindowCount(id) ==
    Cardinality({d \in (todayKey(now) - 29)..todayKey(now) :
                   d \in DOMAIN history /\ Truthy(HabitsOf(history[d]), id)})

\* the first habit of the list that no other habit beats
FirstExtreme(which) ==
    habits[CHOOSE i \in 1..Len(habits) :
        /\ \A j \in 1..Len(habits) :
              IF which = "best" THEN WindowCount(habits[j].id) <= WindowCount(habits[i].id)
              ELSE WindowCount(habits[j].id) >= WindowCount(habits[i].id)
        /\ \A j \in 1..(i - 1) : WindowCount(habits[j].id) # WindowCount(habits[i].id)]

\* C7: bestHabit is the first habit of the list with the highest count over
\* the 30-day window, worstHabit the first with the lowest, for every list of
\* unique ids.
C7_InsightFirstWins ==
    (view.op = "insight" /\ Len(habits) > 0 /\ UniqueIds(habits)) =>
        /\ view.val.bestHabit = FirstExtreme("best")
        /\ view.val.worstHabit = FirstExtreme("worst")

\* what does hold: the same, for lists in which no id is a canonical array index
InsightFirstWinsWithoutIndexIds ==
    (Len(habits) > 0 /\ UniqueIds(habits) /\ \A id \in HabitIds(habits) : ~IsArrayIndex(id)) =>
        /\ monthlyInsight(history, habits, now).bestHabit = FirstExtreme("best")
        /\ monthlyInsight(history, habits, now).worstHabit = FirstExtreme("worst")

(***************************************************************************)
(* The habit handlers on a loaded document                                 *)
(***************************************************************************)
HabitStartLists == {<<HabitOf(<<"b">>)>>, <<HabitOf(<<"a">>), HabitOf(<<"b">>)>>}
HabitStartDays == {StartDay - 1, StartDay}
HabitStartEntries ==
    {EmptyObj} \cup {[habits |-> m] : m \in UNION {[S -> BOOLEAN] :
                                            S \in SUBSET {<<"a">>, <<"b">>, <<"a", "-", "b">>}}}
HabitStartHistories == UNION {[S -> HabitStartEntries] : S \in SUBSET HabitStartDays}

InitHabits ==
    /\ ServerIdle
    /\ permission = "granted"
    /\ \E h \in HabitStartLists, hist \in HabitStartHistories :
          Loaded(<<"1">>, h, hist, DefaultTasks(Start))

NextHabits ==
    \/ \E text \in HabitInputs : handleAddHabit(text)
    \/ \E id \in HabitIds(habits) : handleDeleteHabit(id)
    \/ \E id \in HabitIds(habits), updated \in RenameInputs : handleRenameHabit(id, updated)

SpecHabits == InitHabits /\ [][NextHabits]_vars

\* C8: a step that adds a habit leaves every existing history entry with the
\* new id mapped to false; a step that deletes a habit leaves no entry with
\* its id as a key; in both, the entries keep their dates and the values of
\* all other ids.
C8_BackfillAndPrune ==
    [][ /\ (Len(habits') = Len(habits) + 1) =>
             LET id == habits'[Len(habits')].id
             IN /\ DOMAIN history' = DOMAIN history
                /\ \A d \in DOMAIN history :
                      /\ "habits" \in DOMAIN history'[d]
                      /\ id \in DOMAIN history'[d].habits
                      /\ history'[d].habits[id] = FALSE
                      /\ DOMAIN history'[d].habits \ {id} = DOMAIN HabitsOf(history[d]) \ {id}
                      /\ \A k \in DOMAIN history'[d].habits \ {id} :
                            history'[d].habits[k] = history[d].habits[k]
        /\ (Len(habits') < Len(habits)) =>
             LET gone == HabitIds(habits) \ HabitIds(habits')
             IN /\ DOMAIN history' = DOMAIN history
                /\ \A d \in DOMAIN history :
                      /\ DOMAIN HabitsOf(history'[d]) = DOMAIN HabitsOf(history[d]) \ gone
                      /\ \A k \in DOMAIN HabitsOf(history'[d]) :
                            history'[d].habits[k] = history[d].habits[k]
      ]_vars

\* "b" was deleted and "a-b" added over two existing entries, one of which
\* has another habit true
C8_Witness ==
    /\ <<"b">> \notin HabitIds(habits)
    /\ <<"a", "-", "b">> \in HabitIds(habits)
    /\ DOMAIN history = HabitStartDays
    /\ \A d \in DOMAIN history :
          /\ <<"b">> \notin DOMAIN HabitsOf(history[d])
          /\ <<"a", "-", "b">> \in DOMAIN HabitsOf(history[d])
          /\ ~history[d].habits[<<"a", "-", "b">>]
    /\ \E d \in DOMAIN history : Truthy(HabitsOf(history[d]), <<"a">>)

\* C9: the ids of the habit list stay unique; adding a label whose slug is an
\* id of the list changes neither the list nor history; a step that keeps
\* the length of the list (a rename) keeps every id.
C9_UniqueHabitIds ==
    /\ []UniqueIds(habits)
    /\ [][ /\ \A text \in HabitInputs :
                  (handleAddHabit(text) /\ slugify(Trim(text), now) \in HabitIds(habits))
                  => UNCHANGED <<habits, history>>
           /\ (Len(habits') = Len(habits)) =>
                  \A i \in 1..Len(habits) : habits'[i].id = habits[i].id
         ]_vars

\* a list grown to four habits, the fallback id among them, the habit "a"
\* renamed to "B"
C9_Witness ==
    /\ Len(habits) = 4
    /\ \E i \in 1..Len(habits) : habits[i].id = <<"a">> /\ habits[i].label = <<"B">>
    /\ \E i \in 1..Len(habits) : Len(habits[i].id) > 6

(***************************************************************************)
(* The task handlers and the reminder timeouts on a loaded document        *)
(***************************************************************************)
\* Task lists a stored document may hold for today: the ids are whatever the
\* document says (POST /api/data stores any tasksByDate), here 101 and 102,
\* possibly the same id twice.
StoredTask(id, reminder) ==
    [id |-> id, text |-> <<"a">>, done |-> FALSE, reminderTime |-> reminder]
StoredLists ==
    UNION {[1..n -> {StoredTask(id, "18:00") : id \in {101, 102}}] : n \in 0..MaxStoredTasks}

InitReminders ==
    /\ ServerIdle
    /\ permission = "granted"
    /\ \E l \in StoredLists :
          Loaded(<<"1">>, DEFAULT_HABITS, DefaultHistory(Start), [d \in {StartDay} |-> l])

NextReminders ==
    \/ \E text \in {<<" ">>, <<"a">>}, reminder \in ReminderTimes : handleAddTask(text, reminder)
    \/ \E id \in TaskIds(ListAt(tasksByDate, selectedDate)) : toggleTask(id)
    \/ \E id \in TaskIds(ListAt(tasksByDate, selectedDate)), updated \in {<<>>, <<"b", " ">>} :
          editTask(id, updated)
    \/ \E id \in TaskIds(ListAt(tasksByDate, selectedDate)) : deleteTask(id)
    \/ \E value \in PickedDates(now) : handleDateChange(value)
    \/ TickCoarse
    \/ \E i \in 1..Len(reminders) : FireReminder(i)
    \/ handleLogout

SpecReminders == InitReminders /\ [][NextReminders]_vars

(***************************************************************************)
(* Reminder delivery under every notification permission                   *)
(***************************************************************************)
InitDelivery ==
    /\ ServerIdle
    /\ permission \in {"unsupported", "granted", "default", "denied"}
    /\ \E l \in StoredLists :
          Loaded(<<"1">>, DEFAULT_HABITS, DefaultHistory(Start), [d \in {StartDay} |-> l])

NextDelivery ==
    \/ \E id \in TaskIds(ListAt(tasksByDate, selectedDate)) : toggleTask(id)
    \/ \E value \in PickedDates(now) : handleDateChange(value)
    \/ TickCoarse
    \/ \E i \in 1..Len(reminders) : FireReminder(i)
    \/ \E i \in 1..Len(permRequests), perm \in {"granted", "denied", "default"} :
          PermissionResponse(i, perm)

SpecDelivery == InitDelivery /\ [][NextDelivery]_vars

(***************************************************************************)
(* Claims about reminders                                                  *)
(***************************************************************************)
\* C2: at any moment every pending reminder timeout was registered by the most
\* recent scheduling pass (every earlier one was cancelled), whatever the
\* task ids are.
C2_CancellationTotal == \A i \in 1..Len(reminders) : reminders[i].latest

\* the pending timeouts the latest pass registered for the task at (date, pos)
RegisteredFor(timers, date, pos) ==
    {i \in 1..Len(timers) :
        timers[i].latest /\ timers[i].date = date /\ timers[i].pos = pos}

\* what C3 asks of the task at (date, pos) after a pass at instant t
RegisteredAsDue(tasks, timers, date, pos, t) ==
    LET task == tasks[date][pos]
        regs == RegisteredFor(timers, date, pos)
    IN IF task.reminderTime = "" THEN regs = {}
       ELSE IF DueInstant(date, task.reminderTime) <= t THEN regs = {}
       ELSE /\ Cardinality(regs) = 1
            /\ \A i \in regs : timers[i].at = DueInstant(date, task.reminderTime)

\* C3: after a scheduling pass, a task with an empty reminderTime or a fire
\* instant at or before now has no registered action, and a task whose fire
\* instant is after now has exactly one, due at that fire instant.
C3_Registration ==
    [][tasksByDate' # tasksByDate =>
          \A d \in DOMAIN tasksByDate' : \A p \in 1..Len(tasksByDate'[d]) :
              RegisteredAsDue(tasksByDate', reminders', d, p, now')]_vars

\* The same for the tasks whose fire instant is within the range of a
\* setTimeout delay.
RegistrationWithinTimeoutRange ==
    [][tasksByDate' # tasksByDate =>
          \A d \in DOMAIN tasksByDate' : \A p \in 1..Len(tasksByDate'[d]) :
              LET task == tasksByDate'[d][p]
              IN (task.reminderTime # ""
                    => DueInstant(d, task.reminderTime) - now' <= TimeoutMaxUnits)
                 => RegisteredAsDue(tasksByDate', reminders', d, p, now')]_vars

DeliveredCount(log, p) ==
    Cardinality({k \in 1..Len(log) : log[k].date = p[1] /\ log[k].id = p[2]})

\* C4: once a task with a future reminder has been deleted before its fire
\* instant, no reminder of that task is delivered, whatever follows.
C4_DeletedNeverDelivered ==
    [][\A p \in deleted : DeliveredCount(deliveries', p) = DeliveredCount(deliveries, p)]_vars

\* C10: each reminder fire makes exactly one delivery attempt: a notification
\* when permission is granted, a permission request when it is undetermined
\* (answered by a notification on grant and by an alert otherwise), an alert
\* when it is denied or notifications are unsupported; never both, never none.
C10_OneDeliveryPerFire ==
    /\ [](fires = Len(deliveries) + Len(permRequests))
    /\ [][fires' = fires + 1 =>
            \E i \in 1..Len(reminders) :
                LET date == reminders[i].date
                    task == reminders[i].task
                IN /\ reminders' = RemoveAt(reminders, i)
                   /\ CASE permission = "granted" ->
                              /\ deliveries' = Append(deliveries, Notify(date, task))
                              /\ permRequests' = permRequests
                        [] permission = "default" ->
                              /\ permRequests' = Append(permRequests, [date |-> date, task |-> task])
                              /\ deliveries' = deliveries
                        [] OTHER ->
                              /\ deliveries' = Append(deliveries, Alert(date, task))
                              /\ permRequests' = permRequests]_vars
    /\ [][permRequests' # permRequests /\ fires' = fires =>
            \E i \in 1..Len(permRequests) :
                /\ permRequests' = RemoveAt(permRequests, i)
                /\ deliveries' = Append(deliveries,
                      IF permission' = "granted"
                      THEN Notify(permRequests[i].date, permRequests[i].task)
                      ELSE Alert(permRequests[i].date, permRequests[i].task))]_vars

\* two fires answered after a permission request, one by a notification and
\* one by an alert
C10_Witness ==
    /\ fires = 2
    /\ permRequests = <<>>
    /\ Len(deliveries) = 2
    /\ {deliveries[k].how : k \in 1..Len(deliveries)} = {"notification", "alert"}

(***************************************************************************)
(* Session and persistence: sign-in, load, mutations, the debounced save   *)
(***************************************************************************)
\* documents GET /api/data answers with
SyncDocs ==
    {[habits |-> <<>>, history |-> EmptyObj, tasksByDate |-> EmptyObj],
     [habits |-> <<HabitOf(<<"a">>)>>,
      history |-> [d \in {StartDay} |-> [habits |-> [k \in {<<"a">>} |-> TRUE]]],
      tasksByDate |-> [d \in {StartDay} |-> <<>>]]}

InitSync ==
    /\ ServerIdle
    /\ permission = "granted"
    /\ \E mob \in {<<>>, <<"1">>} : Mounted(mob)

NextSync ==
    \/ \E mode \in {"login", "signup"}, input \in MobileInputs : handleAuth(mode, input)
    \/ \E i \in 1..Len(auths), ok \in BOOLEAN : AuthResponse(i, ok)
    \/ \E l \in loads, ok \in BOOLEAN, json \in SyncDocs : LoadResponse(l, ok, json)
    \/ handleLogout
    \/ \E checked \in BOOLEAN : handleHabitToggle(habits[1].id, checked)
    \/ handleAddTask(<<"a">>, "")
    \/ TickFine
    \/ \E i \in 1..Len(saveTimers) : FireSave(i, TRUE)

SpecSync == InitSync /\ [][NextSync]_vars

Doc == [habits |-> habits, history |-> history, tasksByDate |-> tasksByDate]

\* C1: while the document is loaded and an identity is set, the changes of
\* habits/history/tasksByDate since the last persistence call are answered by
\* exactly one pending save, due one quiet interval after the last change and
\* carrying the document as it is after that change; the POST is issued no
\* earlier than that, with that document, and once.
C1_DebouncedSave ==
    /\ [](isLoaded /\ mobile # <<>> =>
            /\ postsSince <= 1
            /\ postsSince = 1 => saveTimers = <<>>
            /\ postsSince = 0 =>
                  /\ Len(saveTimers) = 1
                  /\ saveTimers[1].payload = Doc
                  /\ saveTimers[1].mobile = mobile
                  /\ saveTimers[1].due = lastChangeAt + QuietUnits)
    /\ [][postsSince' = postsSince + 1 /\ isLoaded /\ mobile # <<>> =>
            /\ now >= lastChangeAt + QuietUnits
            /\ \E i \in 1..Len(saveTimers) : saveTimers[i].payload = Doc
            /\ saveTimers' = <<>>
            /\ postsSince = 0]_vars

\* a habit toggle and a task added less than a quiet interval after the load,
\* answered by one POST
C1_Witness ==
    /\ isLoaded /\ mobile # <<>>
    /\ postsSince = 1
    /\ nextId = 1
    /\ \E d \in DOMAIN history : DOMAIN history[d].habits # {}
    /\ lastChangeAt > Start
    /\ lastChangeAt < Start + QuietUnits

(***************************************************************************)
(* The debounced save when persistence calls fail                          *)
(***************************************************************************)
InitSave ==
    /\ ServerIdle
    /\ permission = "granted"
    /\ Loaded(<<"1">>, DEFAULT_HABITS, DefaultHistory(Start), DefaultTasks(Start))

NextSave ==
    \/ \E checked \in BOOLEAN : handleHabitToggle(habits[1].id, checked)
    \/ \E updated \in RenameInputs : handleRenameHabit(habits[1].id, updated)
    \/ handleAddTask(<<"a">>, "")
    \/ TickFine
    \/ TickCoarse
    \/ \E i \in 1..Len(saveTimers), ok \in BOOLEAN : FireSave(i, ok)

SpecSave == InitSave /\ [][NextSave]_vars

\* C11: a failed POST /api/data leaves habits, history and tasksByDate as they
\* were and sets no new save timeout (no retry); whatever calls failed before,
\* a change is followed by one pending save carrying the document as it is
\* after the change, and the POST that answers it is issued after the quiet
\* interval with that document.
C11_FailedSave ==
    /\ [][saveFailedAt' # saveFailedAt =>
            /\ UNCHANGED <<docVars, isLoaded, mobile, lastChangeAt>>
            /\ Len(saveTimers') < Len(saveTimers)
            /\ \A k \in 1..Len(saveTimers') :
                  \E j \in 1..Len(saveTimers) : saveTimers'[k] = saveTimers[j]]_vars
    /\ [](saveFailedAt # NoFailure /\ postsSince = 0 =>
            /\ Len(saveTimers) = 1
            /\ saveTimers[1].payload = Doc
            /\ saveTimers[1].due = lastChangeAt + QuietUnits)
    /\ [](saveFailedAt # NoFailure /\ postsSince > 0 => saveTimers = <<>>)
    /\ [][saveFailedAt # NoFailure /\ postsSince' = postsSince + 1 =>
            /\ now >= lastChangeAt + QuietUnits
            /\ \E i \in 1..Len(saveTimers) : saveTimers[i].payload = Doc]_vars

\* a POST failed, a later change was made and its POST has been issued
C11_Witness ==
    /\ saveFailedAt # NoFailure
    /\ lastChangeAt > saveFailedAt
    /\ postsSince = 1
    /\ saveTimers = <<>>

(***************************************************************************)
(* The document fetch that fails                                           *)
(***************************************************************************)
\* C12: when the document fetch of the current identity fails, the document
\* in memory becomes the default one (the 7 default habits, a history with
\* only an empty entry for today, an empty task list for today) and the
\* client is marked loaded.
C12_FailedLoadInstallsDefaults ==
    [][\A l \in loads \ loads' :
          (l.mounted /\ \E json \in SyncDocs : LoadResponse(l, FALSE, json)) =>
              /\ Len(habits') = 7
              /\ habits' = DEFAULT_HABITS
              /\ DOMAIN history' = {todayKey(now)}
              /\ history'[todayKey(now)] = [habits |-> EmptyObj]
              /\ DOMAIN tasksByDate' = {todayKey(now)}
              /\ tasksByDate'[todayKey(now)] = <<>>
              /\ isLoaded']_vars

\* Logged in and loaded with the default document in memory, its save
\* pending: no answer of GET /api/data in SyncDocs installs the default
\* habits together with an empty task list for today, so the fetch failed.
C12_Witness ==
    /\ isLoaded /\ mobile # <<>>
    /\ loads = {}
    /\ habits = DEFAULT_HABITS
    /\ history = DefaultHistory(now)
    /\ tasksByDate = DefaultTasks(now)
    /\ Len(saveTimers) = 1

(***************************************************************************)
(* The server: Express handlers over the UserData collection               *)
(***************************************************************************)
\* DEFAULT_HABITS of the server, the same seven entries as the client's
SERVER_DEFAULT_HABITS == DEFAULT_HABITS

\* JSON values of a request body, tagged by their kind
Arr(items) == [kind |-> "array", items |-> items]
Obj(val) == [kind |-> "object", val |-> val]
JsonNull == [kind |-> "null"]
JsonString == [kind |-> "string"]

\* habits: [{ id: String, label: String }]: a subdocument keeps the paths of
\* its schema and gets an _id unless it carries one
CastHabit(h) ==
    [k \in ({"id", "label", "_id"} \cap DOMAIN h) \cup {"_id"} |->
        IF k \in DOMAIN h THEN h[k] ELSE "ObjectId"]

CastHabits(items) == [i \in 1..Len(items) |-> CastHabit(items[i])]

\* the paths of a document that /api/data answers with
DataOf(doc) == [habits |-> doc.habits, history |-> doc.history, tasksByDate |-> doc.tasksByDate]

\* UserData.findOne({ mobile }): the documents it may return
Found(coll, m) == {doc \in coll : doc.mobile = m}

\* the document both seeding handlers pass to UserData.create
SeedDocument(m, t) ==
    [mobile |-> m,
     habits |-> CastHabits(SERVER_DEFAULT_HABITS),
     history |-> [d \in {todayKey(t)} |-> [habits |-> EmptyObj]],
     tasksByDate |-> [d \in {todayKey(t)} |-> <<>>]]

\* res.status(status).json(body), kept with the request it answers
Respond(route, m, sent, status, body) ==
    response' = [route |-> route, mobile |-> m, request |-> sent,
                 status |-> status, body |-> body]

ErrorBody == [error |-> TRUE]

\* signup without the lookup: it goes to UserData.create whatever the store holds
SignupWithoutLookup(m) ==
    /\ IF m = <<>>
       THEN Respond("signup", m, EmptyObj, 400, ErrorBody) /\ UNCHANGED requests
       ELSE /\ requests' = Append(requests, [route |-> "signup", mobile |-> m])
            /\ UNCHANGED response
    /\ UNCHANGED <<store, clientVarsAtRest, view>>

\* POST /api/auth/signup up to the answer of findOne; `m` is req.body.mobile,
\* <<>> when it is missing or empty
SignupLookup(m) ==
    /\ IF m = <<>>
       THEN Respond("signup", m, EmptyObj, 400, ErrorBody) /\ UNCHANGED requests
       ELSE IF Found(store, m) # {}
       THEN Respond("signup", m, EmptyObj, 200, [mobile |-> m]) /\ UNCHANGED requests
       ELSE /\ requests' = Append(requests, [route |-> "signup", mobile |-> m])
            /\ UNCHANGED response
    /\ UNCHANGED <<store, clientVarsAtRest, view>>

\* login that seeds a document for an unknown mobile, as GET /api/data does
LoginSeeding(m) ==
    /\ IF m = <<>>
       THEN Respond("login", m, EmptyObj, 400, ErrorBody) /\ UNCHANGED store
       ELSE /\ store' = IF Found(store, m) = {} THEN store \cup {SeedDocument(m, now)}
                        ELSE store
            /\ Respond("login", m, EmptyObj, 200, [mobile |-> m])
    /\ UNCHANGED <<requests, clientVarsAtRest, view>>

\* POST /api/auth/login
Login(m) ==
    /\ IF m = <<>> THEN Respond("login", m, EmptyObj, 400, ErrorBody)
       ELSE IF Found(store, m) = {} THEN Respond("login", m, EmptyObj, 404, ErrorBody)
       ELSE Respond("login", m, EmptyObj, 200, [mobile |-> m])
    /\ UNCHANGED <<store, requests, clientVarsAtRest, view>>

\* GET /api/data without requireMobile in front of it
GetDataWithoutRequireMobile(m) ==
    /\ IF Found(store, m) # {}
       THEN /\ \E doc \in Found(store, m) : Respond("get", m, EmptyObj, 200, DataOf(doc))
            /\ UNCHANGED requests
       ELSE /\ requests' = Append(requests, [route |-> "get", mobile |-> m])
            /\ UNCHANGED response
    /\ UNCHANGED <<store, clientVarsAtRest, view>>

\* GET /api/data up to the answer of findOne; `m` is the x-user-mobile header
GetDataLookup(m) ==
    /\ IF m = <<>>
       THEN Respond("get", m, EmptyObj, 401, ErrorBody) /\ UNCHANGED requests
       ELSE IF Found(store, m) # {}
       THEN /\ \E doc \in Found(store, m) : Respond("get", m, EmptyObj, 200, DataOf(doc))
            /\ UNCHANGED requests
       ELSE /\ requests' = Append(requests, [route |-> "get", mobile |-> m])
            /\ UNCHANGED response
    /\ UNCHANGED <<store, clientVarsAtRest, view>>

\* await UserData.create(...) of signup and of GET /api/data, and the answer:
\* the unique index on mobile rejects a second document (caught: 500)
Create(i) ==
    LET req == requests[i]
        doc == SeedDocument(req.mobile, now)
    IN /\ i \in 1..Len(requests)
       /\ requests' = RemoveAt(requests, i)
       /\ IF Found(store, req.mobile) # {}
          THEN /\ Respond(req.route, req.mobile, EmptyObj, 500, ErrorBody)
               /\ UNCHANGED store
          ELSE /\ store' = store \cup {doc}
               /\ IF req.route = "signup"
                  THEN Respond("signup", req.mobile, EmptyObj, 201, [mobile |-> req.mobile])
                  ELSE Respond("get", req.mobile, EmptyObj, 200, DataOf(doc))
       /\ UNCHANGED <<clientVarsAtRest, view>>

\* the update document of POST /api/data (lines 104-110)
UpdateOf(m, body) ==
    LET habitsIn == IF "habits" \in DOMAIN body THEN body.habits
                    ELSE Arr(SERVER_DEFAULT_HABITS)
        historyIn == IF "history" \in DOMAIN body THEN body.history ELSE Obj(EmptyObj)
        tasksIn == IF "tasksByDate" \in DOMAIN body THEN body.tasksByDate ELSE Obj(EmptyObj)
    IN [mobile |-> m,
        habits |-> IF habitsIn.kind = "array" /\ Len(habitsIn.items) > 0
                   THEN CastHabits(habitsIn.items)
                   ELSE CastHabits(SERVER_DEFAULT_HABITS),
        history |-> IF historyIn.kind = "null" THEN EmptyObj ELSE historyIn.val,
        tasksByDate |-> IF tasksIn.kind = "null" THEN EmptyObj ELSE tasksIn.val]

\* an insert in place of the upsert
InsertOnly(coll, m, update) == coll \cup {update}

\* findOneAndUpdate({ mobile }, update, { new: true, upsert: true })
Upsert(coll, m, update) == (coll \ Found(coll, m)) \cup {update}

\* POST /api/data; `m` is the x-user-mobile header, `body` is req.body
PostData(m, body) ==
    /\ IF m = <<>>
       THEN Respond("post", m, body, 401, ErrorBody) /\ UNCHANGED store
       ELSE /\ store' = Upsert(store, m, UpdateOf(m, body))
            /\ Respond("post", m, body, 200, DataOf(UpdateOf(m, body)))
    /\ UNCHANGED <<requests, clientVarsAtRest, view>>

(***************************************************************************)
(* The server, its requests handled one at a time                          *)
(***************************************************************************)
\* req.body.mobile and the x-user-mobile header (<<>>: missing or empty)
ServerMobiles == {<<>>, <<"1">>, <<"2">>}

StoredHistory == [d \in {StartDay} |-> [habits |-> [k \in {<<"a">>} |-> TRUE]]]

\* bodies of POST /api/data: empty; habits an empty array, a string, null; a
\* document; habits with a path outside the schema and the rest null
PostBodies ==
    {EmptyObj,
     [habits |-> Arr(<<>>)],
     [habits |-> JsonString, history |-> Obj(StoredHistory)],
     [habits |-> JsonNull, tasksByDate |-> Obj(DefaultTasks(Start))],
     [habits |-> Arr(<<HabitOf(<<"a">>)>>), history |-> Obj(StoredHistory),
      tasksByDate |-> Obj(DefaultTasks(Start))],
     [habits |-> Arr(<<[id |-> <<"b">>, label |-> <<"b">>, color |-> <<"c">>]>>),
      history |-> JsonNull, tasksByDate |-> JsonNull]}

InitServer ==
    /\ permission = "granted"
    /\ Mounted(<<>>)
    /\ requests = <<>>
    /\ response = [route |-> "none"]
    /\ store \in {{}, {SeedDocument(<<"1">>, Start)},
                  {UpdateOf(<<"2">>, [habits |-> Arr(<<HabitOf(<<"a">>)>>)])}}

NextServer ==
    \/ requests = <<>> /\ \E m \in ServerMobiles : SignupLookup(m)
    \/ requests = <<>> /\ \E m \in ServerMobiles : Login(m)
    \/ requests = <<>> /\ \E m \in ServerMobiles : GetDataLookup(m)
    \/ requests = <<>> /\ \E m \in ServerMobiles, body \in PostBodies : PostData(m, body)
    \/ \E i \in 1..Len(requests) : Create(i)

SpecServer == InitServer /\ [][NextServer]_vars

\* the documents stored for an identity
DocsOf(coll, m) == {doc \in coll : doc.mobile = m}

\* a document seeded with the 7 default habits, an empty history entry and an
\* empty task list for the day `day`
IsSeeded(doc, day) ==
    /\ Len(doc.habits) = 7
    /\ \A i \in 1..7 : /\ doc.habits[i].id = DEFAULT_HABITS[i].id
                       /\ doc.habits[i].label = DEFAULT_HABITS[i].label
    /\ DOMAIN doc.history = {day}
    /\ doc.history[day] = [habits |-> EmptyObj]
    /\ DOMAIN doc.tasksByDate = {day}
    /\ doc.tasksByDate[day] = <<>>

\* C13: signup answers 400 and leaves the store alone when the mobile is
\* missing; answers 200 and leaves the store alone when a document exists;
\* otherwise answers 201 and adds one default-seeded document; no identity
\* ever has two documents.
C13_Signup ==
    /\ [](\A m \in ServerMobiles : Cardinality(DocsOf(store, m)) <= 1)
    /\ [][response' # response /\ response'.route = "signup" =>
            LET m == response'.mobile
            IN IF m = <<>>
               THEN response'.status = 400 /\ store' = store
               ELSE IF DocsOf(store, m) # {}
               THEN response'.status = 200 /\ store' = store
               ELSE /\ response'.status = 201
                    /\ \E doc \in store' : /\ doc.mobile = m
                                            /\ IsSeeded(doc, todayKey(now))
                                            /\ store' = store \cup {doc}]_vars

\* a signup has created a document next to another identity's
C13_Witness ==
    /\ response.route = "signup"
    /\ response.status = 201
    /\ Cardinality(store) = 2

\* C14: GET /api/data answers with the stored habits, history and tasksByDate
\* of the identity and leaves the store alone; for an unknown identity it
\* adds a default-seeded document and answers with it; without the header
\* GET and POST /api/data answer 401 and leave the store alone.
C14_GetData ==
    [][response' # response /\ response'.route \in {"get", "post"} =>
          LET m == response'.mobile
          IN IF m = <<>>
             THEN response'.status = 401 /\ store' = store
             ELSE response'.route = "get" =>
                    /\ response'.status = 200
                    /\ IF DocsOf(store, m) # {}
                       THEN /\ store' = store
                            /\ \E doc \in DocsOf(store, m) : response'.body = DataOf(doc)
                       ELSE \E doc \in store' :
                               /\ doc.mobile = m
                               /\ IsSeeded(doc, todayKey(now))
                               /\ store' = store \cup {doc}
                               /\ response'.body = DataOf(doc)]_vars

\* GET /api/data has answered an unknown identity with a seeded document,
\* stored next to another identity's
C14_Witness ==
    /\ response.route = "get"
    /\ response.status = 200
    /\ Cardinality(store) = 2
    /\ \E doc \in DocsOf(store, response.mobile) :
          IsSeeded(doc, todayKey(now)) /\ response.body = DataOf(doc)

\* the habits of a body that POST /api/data replaces by the seed habits
LacksHabits(body) ==
    \/ "habits" \notin DOMAIN body
    \/ body.habits.kind # "array"
    \/ body.habits.kind = "array" /\ Len(body.habits.items) = 0

\* C15: POST /api/data of identity X leaves exactly one document of X, answers
\* with its habits, history and tasksByDate, and leaves the documents of the
\* other identities alone; a body without a non-empty habits array stores
\* the 7 seed habits; a GET /api/data of X that follows answers the same.
C15_PostData ==
    /\ [][response' # response /\ response'.route = "post" /\ response'.mobile # <<>> =>
            LET m == response'.mobile
            IN /\ response'.status = 200
               /\ Cardinality(DocsOf(store', m)) = 1
               /\ \A doc \in DocsOf(store', m) :
                     /\ response'.body = DataOf(doc)
                     /\ LacksHabits(response'.request) =>
                           /\ Len(doc.habits) = 7
                           /\ \A i \in 1..7 :
                                 /\ doc.habits[i].id = DEFAULT_HABITS[i].id
                                 /\ doc.habits[i].label = DEFAULT_HABITS[i].label
               /\ store' \ DocsOf(store', m) = store \ DocsOf(store, m)]_vars
    /\ [][/\ response.route = "post" /\ response.status = 200
          /\ response' # response
          /\ response'.route = "get" /\ response'.mobile = response.mobile
          => response'.status = 200 /\ response'.body = response.body]_vars

\* POST /api/data without habits has replaced the document of an identity
\* that had habits of its own
C15_Witness ==
    /\ response.route = "post"
    /\ response.status = 200
    /\ response.mobile = <<"2">>
    /\ LacksHabits(response.request)
    /\ Cardinality(store) = 2

\* C16: login answers 400 when the mobile is missing, 200 when a document
\* exists for it and 404 when none does, and leaves the store as it was.
C16_Login ==
    [][response' # response /\ response'.route = "login" =>
          LET m == response'.mobile
          IN /\ store' = store
             /\ requests' = requests
             /\ response'.status = IF m = <<>> THEN 400
                                   ELSE IF DocsOf(store, m) # {} THEN 200 ELSE 404]_vars

\* a login was refused for an identity that is still unknown
C16_Witness ==
    /\ response.route = "login"
    /\ response.status = 404
    /\ DocsOf(store, response.mobile) = {}
    /\ store # {}

(***************************************************************************)
(* lastNDates in the zones and at the instants above                       *)
(***************************************************************************)
MaxDates == 7

\* lastNDates(n)
CallLastNDates(n) ==
    /\ view' = [op |-> "dates", n |-> n, val |-> lastNDates(n, now)]
    /\ UNCHANGED <<clientVarsAtRest, serverVars>>

InitDates ==
    /\ ServerIdle
    /\ permission = "granted"
    /\ \E t \in Instants, z \in Zones :
          LoadedAt(t, z, <<"1">>, DEFAULT_HABITS, DefaultHistory(t), DefaultTasks(t))

SpecDates == InitDates /\ [][\E n \in 1..MaxDates : CallLastNDates(n)]_vars

\* C17: lastNDates(n), n >= 1, returns n date keys, each one calendar day
\* after the previous, the last one todayKey().
C17_LastNDates ==
    view.op = "dates" =>
        /\ Len(view.val) = view.n
        /\ \A i \in 1..(view.n - 1) : view.val[i + 1] = view.val[i] + 1
        /\ view.val[view.n] = todayKey(now)

\* What does hold: n keys that never descend and end at todayKey(), and
\* consecutive days in a zone without a clock change.
LastNDatesEndToday ==
    view.op = "dates" =>
        /\ Len(view.val) = view.n
        /\ \A i \in 1..(view.n - 1) : view.val[i + 1] >= view.val[i]
        /\ view.val[view.n] = todayKey(now)
        /\ zone.before = zone.after =>
              \A i \in 1..(view.n - 1) : view.val[i + 1] = view.val[i] + 1

(***************************************************************************)
(* The weekly series and its average                                       *)
(***************************************************************************)
\* the seven days up to StartDay, each without an entry, with an entry that
\* has no habits map, or with habit a done; lists of no, one and two habits
WeekDays == (StartDay - 6)..StartDay
WeekEntries == {EmptyObj, [habits |-> [k \in {<<"a">>} |-> TRUE]]}
WeekHistories == UNION {[S -> WeekEntries] : S \in SUBSET WeekDays}
WeekZones == {UTC, ClockForward(2)}
WeekInstants ==
    {Start, StartDay * UnitsPerDay + 23 * UnitsPerHour + 30 * UnitsPerMinute}

InitWeekly ==
    /\ ServerIdle
    /\ permission = "granted"
    /\ \E t \in WeekInstants, z \in WeekZones, h \in StreakLists, hist \in WeekHistories :
          LoadedAt(t, z, <<"1">>, h, hist, DefaultTasks(t))

NextWeekly == RenderWeekly \/ RenderWeeklyAverage

SpecWeekly == InitWeekly /\ [][NextWeekly]_vars

\* the value the series has for the i-th date of lastNDates(7)
SeriesValue(i) ==
    LET d == lastNDates(7, now)[i]
    IN IF d \in DOMAIN history
       THEN percentForDay(HabitsOf(history[d]), habits)
       ELSE 0

\* C18: the weekly series holds, for the 7 dates of lastNDates(7) in order,
\* percentForDay of the date's entry (0 without an entry); the weekly average
\* is the mean of the 7 values rounded to the nearest integer, in 0..100; the
\* series 100,100,0,100,100,100,100 has the average 86.
C18_WeeklyAverage ==
    /\ view.op = "weekly" =>
          /\ Len(view.val) = 7
          /\ \A i \in 1..7 : view.val[i] = SeriesValue(i)
    /\ view.op = "average" =>
          /\ Len(view.series) = 7
          /\ \A i \in 1..7 : view.series[i] = SeriesValue(i)
          /\ view.val \in 0..100
          /\ 14 * view.val - 7 <= 2 * SumOf(view.series)
          /\ 2 * SumOf(view.series) < 14 * view.val + 7
          /\ view.series = <<100, 100, 0, 100, 100, 100, 100>> => view.val = 86

\* six perfect days and one day without an entry: 86
C18_Witness ==
    /\ view.op = "average"
    /\ view.series = <<100, 100, 0, 100, 100, 100, 100>>
    /\ view.val = 86
    /\ (StartDay - 4) \notin DOMAIN history

(***************************************************************************)
(* The derivation functions on their edge cases                            *)
(***************************************************************************)
\* entries on today, yesterday and the first day of the 30-day window: none,
\* one without a habits map, one with an empty map, one with habit a done
EdgeDays == {StartDay, StartDay - 1, StartDay - 29}
EdgeEntries == {EmptyObj, [habits |-> EmptyObj], [habits |-> [k \in {<<"a">>} |-> TRUE]]}
EdgeHistories == UNION {[S -> EdgeEntries] : S \in SUBSET EdgeDays}

InitEdge ==
    /\ ServerIdle
    /\ permission = "granted"
    /\ \E t \in WeekInstants, z \in WeekZones, h \in StreakLists, hist \in EdgeHistories :
          LoadedAt(t, z, <<"1">>, h, hist, DefaultTasks(t))

NextEdge == RenderWeekly \/ RenderWeeklyAverage \/ RenderStreak \/ RenderInsight

SpecEdge == InitEdge /\ [][NextEdge]_vars

\* no entry of the history has a habits map (so also: the history is empty)
NoHabitsMaps == \A d \in DOMAIN history : "habits" \notin DOMAIN history[d]

Zeros == [i \in 1..7 |-> 0]

\* C19: with an empty habit list, an empty history or entries without a
\* habits map, every derivation has a value: percentForDay is 0,
\* calculateStreak is 0, the weekly series is seven 0s with average 0; and
\* monthlyInsight gives bestHabit = worstHabit = null for an empty habit list.
C19_EdgeCases ==
    /\ (habits = <<>> \/ history = EmptyObj \/ NoHabitsMaps) =>
          /\ \A d \in DOMAIN history : percentForDay(HabitsOf(history[d]), habits) = 0
          /\ percentForDay(EmptyObj, habits) = 0
          /\ view.op = "streak" => view.val = 0
          /\ view.op = "weekly" => view.val = Zeros
          /\ view.op = "average" => view.series = Zeros /\ view.val = 0
          /\ view.op = "insight" =>
                /\ DOMAIN view.val = {"bestHabit", "worstHabit"}
                /\ \A f \in DOMAIN view.val :
                      view.val[f] = Null \/ \E i \in 1..Len(habits) : view.val[f] = habits[i]
    /\ (habits = <<>> /\ view.op = "insight") =>
          view.val = [bestHabit |-> Null, worstHabit |-> Null]

\* no habits, today's entry with a done habit: the streak is 0
C19_Witness ==
    /\ habits = <<>>
    /\ todayKey(now) \in DOMAIN history
    /\ Truthy(HabitsOf(history[todayKey(now)]), <<"a">>)
    /\ view.op = "streak"
    /\ view.val = 0

\* two habits, entries without a habits map: both insights the first habit
EdgeInsightReached ==
    /\ Len(habits) = 2
    /\ history # EmptyObj
    /\ NoHabitsMaps
    /\ view.op = "insight"
    /\ view.val.bestHabit = habits[1]

(***************************************************************************)
(* The task handlers on two dates                                          *)
(***************************************************************************)
\* Task lists of a stored document for today and tomorrow, without reminder
\* times: no task, one task, two tasks, two tasks with the same id
PlainLists ==
    {<<>>, <<StoredTask(101, "")>>, <<StoredTask(101, ""), StoredTask(102, "")>>,
     <<StoredTask(101, ""), StoredTask(101, "")>>}
TaskDates == {StartDay, StartDay + 1}

InitTasks ==
    /\ ServerIdle
    /\ permission = "granted"
    /\ \E lists \in [TaskDates -> PlainLists] :
          Loaded(<<"1">>, DEFAULT_HABITS, DefaultHistory(Start), lists)

NextTasks ==
    \/ \E text \in {<<" ">>, <<"c", " ">>} : handleAddTask(text, "")
    \/ \E id \in TaskIds(ListAt(tasksByDate, selectedDate)) : toggleTask(id)
    \/ \E id \in TaskIds(ListAt(tasksByDate, selectedDate)), updated \in {<<>>, <<"b", " ">>} :
          editTask(id, updated)
    \/ \E id \in TaskIds(ListAt(tasksByDate, selectedDate)) : deleteTask(id)
    \/ \E value \in TaskDates : handleDateChange(value)

SpecTasks == InitTasks /\ [][NextTasks]_vars

\* the lists of all dates but the selected one stay as they are, and nothing
\* but tasksByDate changes in the document
OtherDatesUnchanged ==
    /\ DOMAIN tasksByDate' = DOMAIN tasksByDate \cup {selectedDate}
    /\ \A d \in DOMAIN tasksByDate \ {selectedDate} : tasksByDate'[d] = tasksByDate[d]
    /\ UNCHANGED <<habits, history, selectedDate>>

\* the list without the tasks of the given id, the others in their order
RECURSIVE WithoutId(_, _)
WithoutId(list, id) ==
    IF Len(list) = 0 THEN <<>>
    ELSE (IF Head(list).id = id THEN <<>> ELSE <<Head(list)>>) \o WithoutId(Tail(list), id)

\* C20: a task operation changes the list of the selected date only:
\* handleAddTask puts the new task, not done, before the tasks there were;
\* toggleTask changes only the done flag of the task with the given id,
\* editTask only its text, deleteTask removes only it; the tasks with other
\* ids and the lists of the other dates stay as they are.
C20_TaskFrame ==
    [][LET old == ListAt(tasksByDate, selectedDate)
           new == tasksByDate'[selectedDate]
           ids == TaskIds(old)
       IN /\ \A text \in {<<" ">>, <<"c", " ">>} :
                handleAddTask(text, "") =>
                    /\ OtherDatesUnchanged
                    /\ Len(new) = Len(old) + 1
                    /\ new[1].done = FALSE
                    /\ new[1].text = <<"c">>
                    /\ new[1].id \notin ids
                    /\ Tail(new) = old
          /\ \A id \in ids :
                toggleTask(id) =>
                    /\ OtherDatesUnchanged
                    /\ Len(new) = Len(old)
                    /\ \A i \in 1..Len(old) :
                          new[i] = IF old[i].id = id
                                   THEN [old[i] EXCEPT !.done = ~old[i].done]
                                   ELSE old[i]
          /\ \A id \in ids, updated \in {<<>>, <<"b", " ">>} :
                editTask(id, updated) =>
                    /\ OtherDatesUnchanged
                    /\ Len(new) = Len(old)
                    /\ \A i \in 1..Len(old) :
                          new[i] = IF old[i].id = id
                                   THEN [old[i] EXCEPT !.text = <<"b">>]
                                   ELSE old[i]
          /\ \A id \in ids :
                deleteTask(id) =>
                    /\ OtherDatesUnchanged
                    /\ new = WithoutId(old, id)
                    /\ \A i \in 1..Len(new) : new[i].id # id
      ]_vars

\* tomorrow selected: a task added before the two there were, the first of
\* them done and the second edited, today's two tasks as stored
C20_Witness ==
    /\ selectedDate = StartDay + 1
    /\ Len(ListAt(tasksByDate, selectedDate)) = 3
    /\ tasksByDate[selectedDate][1].text = <<"c">>
    /\ ~tasksByDate[selectedDate][1].done
    /\ tasksByDate[selectedDate][2] = [StoredTask(101, "") EXCEPT !.done = TRUE]
    /\ tasksByDate[selectedDate][3] = [StoredTask(102, "") EXCEPT !.text = <<"b">>]
    /\ tasksByDate[StartDay] = <<StoredTask(101, ""), StoredTask(102, "")>>

(***************************************************************************)
(* The client and the server together: the document on its way             *)
(***************************************************************************)
\* JSON.stringify(payload) as req.body reads it
BodyOf(payload) ==
    [habits |-> Arr(payload.habits), history |-> Obj(payload.history),
     tasksByDate |-> Obj(payload.tasksByDate)]

\* The callback of the save timeout: its POST /api/data, with the mobile and
\* the payload of the render that set the timeout, is on its way
PostSave(i) ==
    /\ i \in 1..Len(saveTimers)
    /\ saveTimers[i].due <= now
    /\ Len(requests) < MaxInFlight
    /\ saveTimers' = RemoveAt(saveTimers, i)
    /\ postsSince' = postsSince + 1
    /\ requests' = Append(requests, [route |-> "post", mobile |-> saveTimers[i].mobile,
                                     body |-> BodyOf(saveTimers[i].payload)])
    /\ UNCHANGED <<docVars, selectedDate, sessionVars, now, view, store, response, zone, nextId,
                   lastChangeAt, saveFailedAt, reminderVars>>

\* POST /api/data handling one of the requests on their way; the client reads
\* nothing of the answer
ServePost(j) ==
    /\ j \in 1..Len(requests)
    /\ requests[j].route = "post"
    /\ requests[j].mobile # <<>>
    /\ requests' = RemoveAt(requests, j)
    /\ store' = Upsert(store, requests[j].mobile, UpdateOf(requests[j].mobile, requests[j].body))
    /\ Respond("post", requests[j].mobile, requests[j].body, 200,
               DataOf(UpdateOf(requests[j].mobile, requests[j].body)))
    /\ UNCHANGED <<clientVarsAtRest, view>>

\* The fetch of the load effect settles: with the document GET /api/data
\* finds in the store (ok), or not
LoadFromStore(l, ok) ==
    \E doc \in Found(store, l.mobile) : LoadResponse(l, ok, DataOf(doc))

\* the document stored for identity 1 before the client starts
StoredDoc ==
    UpdateOf(<<"1">>, BodyOf([habits |-> <<HabitOf(<<"a">>)>>, history |-> StoredHistory,
                              tasksByDate |-> DefaultTasks(Start)]))

\* the client starts with 1 in localStorage, its document fetch on the way
InitFallback ==
    /\ permission = "granted"
    /\ Mounted(<<"1">>)
    /\ store = {StoredDoc}
    /\ requests = <<>>
    /\ response = [route |-> "none"]

NextFallback ==
    \/ \E l \in loads, ok \in BOOLEAN : LoadFromStore(l, ok)
    \/ handleAddTask(<<"a">>, "")
    \/ \E checked \in BOOLEAN : handleHabitToggle(habits[1].id, checked)
    \/ TickFine
    \/ \E i \in 1..Len(saveTimers) : PostSave(i)
    \/ \E j \in 1..Len(requests) : ServePost(j)

SpecFallback == InitFallback /\ [][NextFallback]_vars

\* the user has changed nothing yet
Untouched ==
    /\ nextId = 0
    /\ \A d \in DOMAIN history : \A k \in DOMAIN HabitsOf(history[d]) :
          d \in DOMAIN StoredDoc.history /\ k \in DOMAIN HabitsOf(StoredDoc.history[d])
                                         /\ history[d].habits[k] = StoredDoc.history[d].habits[k]

\* C21: what the client sends under an identity is that identity's loaded
\* document with the user's changes; while the user has changed nothing, no
\* POST carries anything but the stored document, and the stored document
\* stays as it is, whether the load succeeded or failed.
C21_OnlyLoadedDocumentSent ==
    Untouched =>
        /\ store = {StoredDoc}
        /\ \A j \in 1..Len(requests) : requests[j].body = BodyOf(DataOf(StoredDoc))

\* What does hold: while the user has changed nothing, a document that was
\* loaded is sent back as it is stored.
LoadedDocumentSentUnchanged ==
    (Untouched /\ isLoaded /\ habits = StoredDoc.habits) =>
        /\ \A i \in 1..Len(saveTimers) : saveTimers[i].payload = DataOf(StoredDoc)

(***************************************************************************)
(* Answers and saves that outlive their identity                           *)
(***************************************************************************)
\* C22: the answer to a document fetch started for another identity than
\* the current one (the step that takes it from the fetches on their way)
\* changes nothing in memory, and only the fetch of the current identity is
\* still mounted; a save timeout keeps the identity and the
\* snapshot of the render that set it until it fires, and is set only for
\* the current identity with the document in memory.
C22_StaleAnswersDiscarded ==
    /\ [](\A l \in loads : l.mounted => l.mobile = mobile)
    /\ [][\A l \in loads \ loads' :
            l.mobile # mobile => UNCHANGED <<docVars, isLoaded, mobile, saveVars>>]_vars
    /\ [](\A i \in 1..Len(saveTimers) : saveTimers[i].mobile # <<>>)
    /\ [][\A k \in 1..Len(saveTimers') :
            \/ \E j \in 1..Len(saveTimers) :
                  /\ saveTimers'[k].mobile = saveTimers[j].mobile
                  /\ saveTimers'[k].payload = saveTimers[j].payload
                  /\ saveTimers'[k].due = saveTimers[j].due
            \/ /\ saveTimers'[k].mobile = mobile'
               /\ saveTimers'[k].payload = Doc'
               /\ isLoaded']_vars

\* 2 is the current identity; a fetch started for 1 is still on its way and
\* a save set under 1, with a task added under 1, is still pending
C22_Witness ==
    /\ mobile = <<"2">>
    /\ \E l \in loads : l.mobile = <<"1">> /\ ~l.mounted
    /\ \E i \in 1..Len(saveTimers) :
          /\ saveTimers[i].mobile = <<"1">>
          /\ saveTimers[i].payload # Doc

(***************************************************************************)
(* Saves on their way to the server, answered in any order                 *)
(***************************************************************************)
\* the client has loaded the stored document of 1; the save effect has run
InitConverge ==
    /\ permission = "granted"
    /\ Loaded(<<"1">>, StoredDoc.habits, StoredDoc.history, StoredDoc.tasksByDate)
    /\ store = {StoredDoc}
    /\ requests = <<>>
    /\ response = [route |-> "none"]

NextConverge ==
    \/ handleAddTask(<<"a">>, "")
    \/ \E id \in TaskIds(ListAt(tasksByDate, selectedDate)) : toggleTask(id)
    \/ TickFine
    \/ TickCoarse
    \/ \E i \in 1..Len(saveTimers) : PostSave(i)
    \/ \E j \in 1..Len(requests) : ServePost(j)

\* time passes, a due timeout runs, the server answers every request
FairConverge ==
    /\ WF_vars(TickFine \/ TickCoarse)
    /\ WF_vars(\E i \in 1..Len(saveTimers) : PostSave(i))
    /\ WF_vars(\E j \in 1..Len(requests) : ServePost(j))

SpecConverge == InitConverge /\ [][NextConverge]_vars /\ FairConverge

\* the same with the requests answered in the order they were sent
NextInOrder ==
    \/ handleAddTask(<<"a">>, "")
    \/ \E id \in TaskIds(ListAt(tasksByDate, selectedDate)) : toggleTask(id)
    \/ TickFine
    \/ TickCoarse
    \/ \E i \in 1..Len(saveTimers) : PostSave(i)
    \/ ServePost(1)

SpecInOrder ==
    /\ InitConverge /\ [][NextInOrder]_vars
    /\ WF_vars(TickFine \/ TickCoarse)
    /\ WF_vars(\E i \in 1..Len(saveTimers) : PostSave(i))
    /\ WF_vars(ServePost(1))

\* the document stored for the current identity is the one in memory
StoredEqualsMemory ==
    \E doc \in Found(store, mobile) :
        /\ Len(doc.habits) = Len(habits)
        /\ \A i \in 1..Len(habits) : /\ doc.habits[i].id = habits[i].id
                                      /\ doc.habits[i].label = habits[i].label
        /\ doc.history = history
        /\ doc.tasksByDate = tasksByDate

\* no save is pending and no POST is on its way
SavesDone == saveTimers = <<>> /\ requests = <<>>

\* C23: when the user has stopped changing the document and no POST fails,
\* then from some moment on the document stored for the current identity
\* equals the one in memory once every save has been sent and answered, also
\* when two POSTs were on their way at the same time.
C23_Converges == <>[](SavesDone => StoredEqualsMemory)

(***************************************************************************)
(* Single-fire delivery                                                    *)
(***************************************************************************)
\* C24: in a session, whatever task operations and date selections are
\* made, the reminder of a task (a task id) is delivered at most once, and
\* no two reminder timeouts are pending for the same task at any moment.
C24_SingleFire ==
    /\ \A k, l \in 1..Len(deliveries) : deliveries[k].id = deliveries[l].id => k = l
    /\ \A i, j \in 1..Len(reminders) : reminders[i].task.id = reminders[j].task.id => i = j

\* What does hold: the same for the tasks the client created (their ids come
\* from makeId) whose fire instant is within the range of a setTimeout delay.
SingleFireOfOwnTasksInRange ==
    LET InRange(date, task) ==
            /\ task.id \in 1..MaxTasks
            /\ task.reminderTime # ""
            /\ DueInstant(date, task.reminderTime) - Start <= TimeoutMaxUnits
    IN /\ \A k, l \in 1..Len(deliveries) :
             ( /\ deliveries[k].id = deliveries[l].id
               /\ deliveries[k].id \in 1..MaxTasks
               /\ deliveries[k].date # StartDay + FarDays ) => k = l
       /\ \A i, j \in 1..Len(reminders) :
             ( /\ reminders[i].task.id = reminders[j].task.id
               /\ InRange(reminders[i].date, reminders[i].task) ) => i = j

(***************************************************************************)
(* The server with several requests in hand at once                        *)
(***************************************************************************)
MaxHandling == 2

\* nothing is stored; requests for identity 1 arrive while others are between
\* their lookup and their create
InitRace ==
    /\ permission = "granted"
    /\ Mounted(<<>>)
    /\ store = {}
    /\ requests = <<>>
    /\ response = [route |-> "none"]

NextRace ==
    \/ Len(requests) < MaxHandling /\ SignupLookup(<<"1">>)
    \/ Len(requests) < MaxHandling /\ GetDataLookup(<<"1">>)
    \/ \E body \in PostBodies : PostData(<<"1">>, body)
    \/ \E i \in 1..Len(requests) : Create(i)

SpecRace == InitRace /\ [][NextRace]_vars

\* C25: however signup, GET /api/data and POST /api/data for an identity
\* not stored before interleave, every request is answered 201 or 200, and
\* once a request has been answered the store holds exactly one document of
\* the identity.
C25_EveryRequestSucceeds ==
    response.route # "none" =>
        /\ response.status \in {200, 201}
        /\ Cardinality(DocsOf(store, <<"1">>)) = 1

\* What does hold: the store never holds two documents of the identity, and
\* holds one once a request has been answered.
OneDocumentPerIdentity ==
    /\ Cardinality(DocsOf(store, <<"1">>)) <= 1
    /\ response.route # "none" => Cardinality(DocsOf(store, <<"1">>)) = 1
====
